---- MODULE Spec2Model ----
(***************************************************************************)
(* Model of the secure in-memory data plane of the FileEZ server: the      *)
(* memory tracker, the session manager, the file store, the clipboard      *)
(* store, the tripwire and the fortified buffer.                           *)
(***************************************************************************)
EXTENDS Integers, Sequences, FiniteSets, TLC

\* ------------------------------------------------------------------ bounds
\* Width of the machine word the tracker counts in (int64 in the source).
WordBits == 5
\* Number of FortifiedBuffer objects the stores may construct in one behaviour.
MaxBuffers == 2
\* Number of plaintext entries created beside the encrypted ones.
MaxPlain == 1
\* Number of SetText calls in the overwrite race.
MaxSets == 4
\* Number of callbacks callers register with the tripwire themselves.
MaxCallbacks == 3
\* Last tick of the clock.
MaxTime == 2
IntBits == 10
MaxLen == 5
MaxRotations == 2

\* ---------------------------------------------------- configuration values
\* MemoryTracker.limit (cfg.MaxMemory), in bytes of the scaled model.
MemLimit == 3
\* FileStore.maxFileSize (cfg.MaxFileSize).
MaxFileSize == 2
\* FileStore.expiry and ClipboardStore.expiry, in ticks.
FileExpiry == 1
ClipboardExpiry == 1

\* ------------------------------------------------------------- int64 words
WordMod == 2 ^ WordBits
MaxInt == 2 ^ (WordBits - 1) - 1
MinInt == 0 - 2 ^ (WordBits - 1)
Words == MinInt .. MaxInt

\* Go's signed addition and subtraction wrap around.
Wrap(x) == ((x - MinInt) % WordMod) + MinInt

\* --------------------------------------------------------------- variables
VARIABLES
    allocated,   \* MemoryTracker.allocated
    files,       \* FileStore.files: the StoredFile values, at most one per ID
    text,        \* ClipboardStore.text: <<>> (nil) or <<entry>>
    image,       \* ClipboardStore.image: <<>> (nil) or <<entry>>
    shredQueue,  \* entries handed to shredEntryAsync goroutines that have not run yet
    bufs,        \* every FortifiedBuffer constructed so far, by handle
    thr,         \* the calls in flight, one per thread
    now,         \* the clock
    fb,          \* one FortifiedBuffer in the layout of fortified.go: <<>> or <<buffer>>
    sec,         \* the SecureBuffers, the SecureKeys and the ObfuscatedBuffer under test
    lk,          \* every mutex with its holders, and the operations taking them step by step
    calls,       \* SessionManager.mu, Session.mu and the manager calls in flight
    session,     \* SessionManager.session: <<>> (nil) or <<Session>>
    verified,    \* per client: its last VerifyKeyHash succeeded and it has not unlocked since
    triggered,   \* Tripwire.triggered
    callbacks,   \* Tripwire.callbacks
    trigTask,    \* per task running trigger(): its snapshot of callbacks and its position
    spawned,     \* callbacks started with `go fn()` that have not run yet
    invoked,     \* per callback: who invoked it, in order (history)
    registered,  \* per callback: "no", or registered "early" / "late" (history)
    proc,        \* main(): its position, its deferred calls, what it has done (history)
    ret          \* outcome of the operation that completed last (history)

trackerVars == <<allocated>>
storeVars == <<files, text, image, shredQueue, bufs, thr>>
sessionVars == <<session, verified>>
tripVars == <<triggered, callbacks, trigTask, spawned, invoked, registered>>
vars == <<allocated, files, text, image, shredQueue, bufs, thr, now, fb, sec, lk, calls,
          session,
          verified, triggered, callbacks, trigTask, spawned, invoked, registered, proc,
          ret>>

\* ------------------------------------------------------------ MemoryTracker
\* Allocate(size): the new value of allocated and whether the call succeeded.
Allocate(a, size) ==
    IF size <= 0 THEN [ok |-> TRUE, allocated |-> a]
    ELSE IF Wrap(a + size) > MemLimit THEN [ok |-> FALSE, allocated |-> a]
    ELSE [ok |-> TRUE, allocated |-> Wrap(a + size)]

\* Free(size): the new value of allocated.
Free(a, size) ==
    IF size <= 0 THEN a
    ELSE LET d == Wrap(a - size) IN IF d < 0 THEN 0 ELSE d

\* The outcome of an operation, as the caller sees it: the operation, its
\* result, the id and bytes it returned, its size argument, the caller's
\* content slice after the call, and what the step shredded.
Ret(op, res) ==
    [op |-> op, res |-> res, id |-> <<>>, val |-> <<>>, n |-> 0,
     slice |-> <<>>, log |-> {}]

\* ----------------------------------------------------------------- helpers
Zeros(n) == [i \in 1 .. n |-> 0]
\* secure.Shred overwrites the slice in place; it ends all zero, same length.
Shred(data) == Zeros(Len(data))

RECURSIVE SetToSeq(_)
SetToSeq(S) ==
    IF S = {} THEN <<>>
    ELSE LET x == CHOOSE y \in S : TRUE IN <<x>> \o SetToSeq(S \ {x})

RemoveAt(q, i) == [j \in 1 .. Len(q) - 1 |-> IF j < i THEN q[j] ELSE q[j + 1]]

\* encoding/hex: two lowercase digits per byte, high nibble first.
HexDigits == <<"0", "1", "2", "3", "4", "5", "6", "7",
               "8", "9", "a", "b", "c", "d", "e", "f">>
HexEncodeToString(data) ==
    [i \in 1 .. 2 * Len(data) |->
        LET b == data[(i + 1) \div 2] IN
        IF i % 2 = 1 THEN HexDigits[(b \div 16) + 1] ELSE HexDigits[(b % 16) + 1]]

\* The random bytes crypto/rand may hand to GenerateFileID.
FileIDBytes == 8
RandomA == [i \in 1 .. FileIDBytes |-> 171]
RandomB == [i \in 1 .. FileIDBytes |-> 9]
RandomFileIDs == {RandomA, RandomB}

\* GenerateFileID: hex of FileIDBytes random bytes.
GenerateFileID(random) == HexEncodeToString(random)

\* validate.FileID: exactly FileIDLength hex characters, lowercased.
FileIDLength == 16
HexPattern == {HexDigits[i] : i \in 1 .. 16} \cup {"A", "B", "C", "D", "E", "F"}
ToLower(c) ==
    CASE c = "A" -> "a" [] c = "B" -> "b" [] c = "C" -> "c"
      [] c = "D" -> "d" [] c = "E" -> "e" [] c = "F" -> "f" [] OTHER -> c
ValidFileID(id) ==
    /\ Len(id) = FileIDLength
    /\ \A i \in 1 .. Len(id) : id[i] \in HexPattern
NormalFileID(id) == [i \in 1 .. Len(id) |-> ToLower(id[i])]

\* ------------------------------------------------- FortifiedBuffer (stores)
\* What the stores see of a FortifiedBuffer: the bytes Read gives back and
\* whether it has been destroyed.  Its inner layers are modelled further down.
\* orig and shreds are history: the bytes the constructor was given, and how
\* often a store has shredded the entry that owns the buffer.
NewBuffer(content) ==
    [content |-> content, destroyed |-> FALSE, orig |-> content, shreds |-> 0]
\* FortifiedBuffer.Size: totalSize, which Destroy sets to 0.
BufferSize(b) == IF b.destroyed THEN 0 ELSE Len(b.content)
\* A Destroy that leaves the buffer as it is.
BufferDestroyNot(bfs, h) == bfs
\* FortifiedBuffer.Destroy, idempotent.
BufferDestroy(bfs, h) ==
    [bfs EXCEPT ![h].content = <<>>, ![h].destroyed = TRUE]
\* secure.ShredFortifiedBuffer, called by the stores.
ShredFortifiedBuffer(bfs, h) ==
    [BufferDestroy(bfs, h) EXCEPT ![h].shreds = @ + 1]

\* ------------------------------------------------------------------ entries
\* A StoredFile or a ClipboardEntry.  data is a buffer handle, 0 for nil;
\* encrypted is <<>> for nil, else <<ciphertext>>.  reserved and origin are
\* history: the bytes Allocate granted for the entry and who created it.
NewEntry(id, data, encrypted, size, at, expiry, reserved, origin) ==
    [id |-> id, data |-> data, encrypted |-> encrypted, size |-> size,
     createdAt |-> at, expiresAt |-> at + expiry, reserved |-> reserved,
     origin |-> origin]

\* fs.files[id] and its `exists`
HasFile(fls, id) == \E f \in fls : f.id = id
FileAt(fls, id) == CHOOSE f \in fls : f.id = id
\* fs.files[id] = file
PutFile(fls, file) == {f \in fls : f.id # file.id} \cup {file}

\* An expiry test that already fires at the deadline.
ExpiredAtDeadline(e) == now >= e.expiresAt
\* time.Now().After(expiresAt)
Expired(e) == now > e.expiresAt

\* The tracker and the buffers, as the shredding code walks them; log is
\* history: one record per entry shredded in the step.
Mem(a, b, l) == [allocated |-> a, bufs |-> b, log |-> l]

ShredLog(m, e) ==
    m.log \cup {[data |-> e.data, origin |-> e.origin, reserved |-> e.reserved,
                 size |-> e.size, took |-> m.allocated - Free(m.allocated, e.size),
                 shreds |-> IF e.data # 0 THEN m.bufs[e.data].shreds ELSE 0]}

\* FileStore.shredFile
shredFile(m, file) ==
    Mem(Free(m.allocated, file.size),
        IF file.data # 0 THEN ShredFortifiedBuffer(m.bufs, file.data) ELSE m.bufs,
        ShredLog(m, file))

\* ClipboardStore.shredEntry and the goroutine of shredEntryAsync
shredEntry(m, entry) ==
    Mem(Free(m.allocated, entry.size),
        IF entry.data # 0 THEN ShredFortifiedBuffer(m.bufs, entry.data) ELSE m.bufs,
        ShredLog(m, entry))

\* `for id, file := range ... { fs.shredFile(file) }`
RECURSIVE ShredFiles(_, _)
ShredFiles(m, fls) ==
    IF fls = {} THEN m
    ELSE LET f == CHOOSE x \in fls : TRUE IN ShredFiles(shredFile(m, f), fls \ {f})

\* A slot of the clipboard: shred what it holds, if anything.
ShredSlot(m, slot) == IF slot = <<>> THEN m ELSE shredEntry(m, slot[1])

\* ------------------------------------------- MemoryTracker, called directly
TrackerAllocate(size) ==
    LET r == Allocate(allocated, size) IN
    /\ allocated' = r.allocated
    /\ ret' = [Ret("allocate", IF r.ok THEN "ok" ELSE "limit") EXCEPT !.n = size]
    /\ UNCHANGED <<lk, sec, proc, storeVars, now, fb, calls, sessionVars, tripVars>>

TrackerFree(size) ==
    /\ allocated' = Free(allocated, size)
    /\ ret' = [Ret("free", "ok") EXCEPT !.n = size]
    /\ UNCHANGED <<lk, sec, proc, storeVars, now, fb, calls, sessionVars, tripVars>>

\* ----------------------------------------------------------------- Tripwire
Threads == {1, 2}
\* The callbacks: one per buffer, or one per caller registering its own.
Handles == 1 .. (MaxBuffers + MaxPlain + MaxSets + MaxCallbacks)
\* The callback main() registers: the last handle, which no buffer gets.
MainCallback == MaxBuffers + MaxPlain + MaxSets + MaxCallbacks
CallbackIds == 1 .. MaxCallbacks
TrigTasks == {"watcher", "manual"}
IdleTask == [pc |-> "idle", snap |-> <<>>, i |-> 0]

\* A RegisterCallback that appends even after the trigger.
RegisterCallbackAppendOnly(cb) ==
    /\ callbacks' = Append(callbacks, cb)
    /\ spawned' = spawned
    /\ registered' = [registered EXCEPT ![cb] = IF triggered THEN "late" ELSE "early"]

\* Tripwire.RegisterCallback, under t.mu: append, or `go fn()` once triggered.
RegisterCallback(cb) ==
    /\ IF triggered
       THEN spawned' = spawned \cup {cb} /\ callbacks' = callbacks
       ELSE callbacks' = Append(callbacks, cb) /\ spawned' = spawned
    /\ registered' = [registered EXCEPT ![cb] = IF triggered THEN "late" ELSE "early"]

\* The callback a FortifiedBuffer registers: fb.Destroy().  A callback that
\* belongs to no buffer only counts.
RunCallback(bfs, cb) == IF cb <= Len(bfs) THEN BufferDestroy(bfs, cb) ELSE bfs

Invoke(inv, cb, who) == [inv EXCEPT ![cb] = Append(@, who)]

\* Tripwire.trigger, the part under t.mu: return if already triggered, else
\* set triggered and copy the callbacks.  ManualTrigger calls it directly,
\* watchLoop calls it when detectIntrusion() reports true.
TriggerBegin(task) ==
    /\ trigTask[task].pc = "idle"
    /\ IF triggered
       THEN trigTask' = [trigTask EXCEPT ![task].pc = "done"]
       ELSE trigTask' = [trigTask EXCEPT ![task] =
                [pc |-> IF callbacks = <<>> THEN "done" ELSE "running",
                 snap |-> callbacks, i |-> 1]]
    /\ triggered' = TRUE
    /\ ret' = Ret("trigger", task)
    /\ UNCHANGED <<lk, sec, proc, allocated, storeVars, now, fb, calls, sessionVars, callbacks, spawned,
                   invoked, registered>>

\* Tripwire.trigger, the loop over the copy: one callback per step.
TriggerInvoke(task) ==
    /\ trigTask[task].pc = "running"
    /\ trigTask[task].snap[trigTask[task].i] # MainCallback
    /\ LET cb == trigTask[task].snap[trigTask[task].i] IN
       /\ bufs' = RunCallback(bufs, cb)
       /\ invoked' = Invoke(invoked, cb, task)
       /\ ret' = [Ret("callback", task) EXCEPT !.n = cb]
    /\ trigTask' = [trigTask EXCEPT
            ![task].i = @ + 1,
            ![task].pc = IF trigTask[task].i = Len(trigTask[task].snap)
                         THEN "done" ELSE "running"]
    /\ UNCHANGED <<lk, sec, proc, allocated, files, text, image, shredQueue, thr, now, fb, calls, sessionVars,
                   triggered, callbacks, spawned, registered>>

\* The goroutine RegisterCallback starts for a late registration.
SpawnedRun(cb) ==
    /\ cb \in spawned
    /\ cb # MainCallback
    /\ spawned' = spawned \ {cb}
    /\ bufs' = RunCallback(bufs, cb)
    /\ invoked' = Invoke(invoked, cb, "spawn")
    /\ ret' = [Ret("callback", "spawn") EXCEPT !.n = cb]
    /\ UNCHANGED <<lk, sec, proc, allocated, files, text, image, shredQueue, thr, now, fb, calls, sessionVars,
                   triggered, callbacks, trigTask, registered>>

\* A caller registering a callback of its own (a counter, in the tests).
Register(cb) ==
    /\ registered[cb] = "no"
    /\ cb > Len(bufs)
    /\ RegisterCallback(cb)
    /\ ret' = [Ret("register", "ok") EXCEPT !.n = cb]
    /\ UNCHANGED <<lk, sec, proc, allocated, storeVars, now, fb, calls, sessionVars, triggered, trigTask, invoked>>
\* --------------------------------------------------------------------- main
\* main() of cmd/server: pc is its position, accepting whether the HTTP
\* server takes requests, watching whether watchLoop still polls, decoys
\* whether the decoy pool is alive, defers the deferred calls in the order of
\* their defer statements, cb the position of the intrusion callback, exited
\* whether the process has ended; did is history: the steps performed.
NewProcess ==
    [pc |-> "start", accepting |-> FALSE, watching |-> FALSE, decoys |-> FALSE,
     defers |-> <<>>, cb |-> "idle", exited |-> FALSE, did |-> <<>>]

\* Deferred calls run first in, first out.
NextDeferredFifo(stack) == 1
\* Deferred calls run last in, first out: the index of the next one.
NextDeferred(stack) == Len(stack)

\* main up to GlobalTripwire(): memguard, the decoy pool and the tripwire
\* are up, their teardown is deferred.
MainStart ==
    /\ proc.pc = "start"
    /\ proc' = [proc EXCEPT !.pc = "wiring", !.watching = TRUE, !.decoys = TRUE,
                            !.defers = <<"purge", "destroy_decoys", "stop_tripwire">>,
                            !.did = <<"init_decoys", "start_tripwire">>]
    /\ ret' = Ret("main", "tripwire_started")
    /\ UNCHANGED <<lk, sec, allocated, storeVars, now, fb, calls, sessionVars, tripVars>>

\* main from the tracker to ListenAndServe: the stores are built, the
\* intrusion callback is registered and the server accepts requests.
MainServe ==
    /\ proc.pc = "wiring"
    /\ RegisterCallback(MainCallback)
    /\ proc' = [proc EXCEPT !.pc = "serving", !.accepting = TRUE,
                            !.did = Append(@, "register")]
    /\ ret' = Ret("main", "serving")
    /\ UNCHANGED <<lk, sec, allocated, storeVars, now, fb, calls, sessionVars, triggered, trigTask,
                   invoked>>

\* The goroutine that runs main's callback: the task whose trigger() loop
\* stands at it, or the goroutine of a late registration.
RunsMainCallback(who) ==
    IF who = "spawn" THEN MainCallback \in spawned
    ELSE /\ trigTask[who].pc = "running"
         /\ trigTask[who].snap[trigTask[who].i] = MainCallback

\* The callback, `files.ShredAll()`
CallbackShredFiles(who) ==
    LET m == ShredFiles(Mem(allocated, bufs, {}), files) IN
    /\ RunsMainCallback(who) /\ proc.cb = "idle"
    /\ files' = {}
    /\ allocated' = m.allocated
    /\ bufs' = m.bufs
    /\ invoked' = Invoke(invoked, MainCallback, who)
    /\ proc' = [proc EXCEPT !.cb = "clipboard", !.did = Append(@, "cb_shred_files")]
    /\ ret' = [Ret("callback", who) EXCEPT !.n = MainCallback, !.log = m.log]
    /\ UNCHANGED <<lk, sec, text, image, shredQueue, thr, now, fb, calls, sessionVars, triggered,
                   callbacks, trigTask, spawned, registered>>

\* The callback, `clipboard.ShredAll()`
CallbackShredClipboard ==
    LET m == ShredSlot(ShredSlot(Mem(allocated, bufs, {}), text), image) IN
    /\ proc.cb = "clipboard"
    /\ text' = <<>>
    /\ image' = <<>>
    /\ allocated' = m.allocated
    /\ bufs' = m.bufs
    /\ proc' = [proc EXCEPT !.cb = "session", !.did = Append(@, "cb_shred_clipboard")]
    /\ ret' = [Ret("callback", "clipboard") EXCEPT !.n = MainCallback, !.log = m.log]
    /\ UNCHANGED <<lk, sec, files, shredQueue, thr, now, fb, calls, sessionVars, tripVars>>

\* The callback, `session.Destroy()`
CallbackDestroySession ==
    /\ proc.cb = "session"
    /\ session' = <<>>
    /\ proc' = [proc EXCEPT !.cb = "exit", !.did = Append(@, "cb_destroy_session")]
    /\ ret' = [Ret("callback", "session") EXCEPT !.n = MainCallback]
    /\ UNCHANGED <<lk, sec, allocated, storeVars, now, fb, calls, verified, tripVars>>

\* The callback, `os.Exit(1)`: the process ends where it stands.
CallbackExit ==
    /\ proc.cb = "exit"
    /\ proc' = [proc EXCEPT !.cb = "done", !.exited = TRUE, !.did = Append(@, "cb_exit")]
    /\ ret' = [Ret("exit", "intrusion") EXCEPT !.n = 1]
    /\ UNCHANGED <<lk, sec, allocated, storeVars, now, fb, calls, sessionVars, tripVars>>

\* main after the signal: `httpServer.Shutdown(ctx)`, which stops accepting
\* and waits for the requests in flight until the context times out.
MainShutdown ==
    /\ proc.pc = "serving"
    /\ proc' = [proc EXCEPT !.pc = "shred_files", !.accepting = FALSE,
                            !.defers = Append(@, "cancel"),
                            !.did = Append(@, "stop_accepting")]
    /\ ret' = Ret("main", "shutdown")
    /\ UNCHANGED <<lk, sec, allocated, storeVars, now, fb, calls, sessionVars, tripVars>>

\* main, `files.ShredAll()`
MainShredFiles ==
    LET m == ShredFiles(Mem(allocated, bufs, {}), files) IN
    /\ proc.pc = "shred_files"
    /\ files' = {}
    /\ allocated' = m.allocated
    /\ bufs' = m.bufs
    /\ proc' = [proc EXCEPT !.pc = "shred_clipboard", !.did = Append(@, "shred_files")]
    /\ ret' = [Ret("main", "shred_files") EXCEPT !.n = Cardinality(files), !.log = m.log]
    /\ UNCHANGED <<lk, sec, text, image, shredQueue, thr, now, fb, calls, sessionVars, tripVars>>

\* main, `clipboard.ShredAll()`
MainShredClipboard ==
    LET m == ShredSlot(ShredSlot(Mem(allocated, bufs, {}), text), image) IN
    /\ proc.pc = "shred_clipboard"
    /\ text' = <<>>
    /\ image' = <<>>
    /\ allocated' = m.allocated
    /\ bufs' = m.bufs
    /\ proc' = [proc EXCEPT !.pc = "destroy_session",
                            !.did = Append(@, "shred_clipboard")]
    /\ ret' = [Ret("main", "shred_clipboard") EXCEPT !.log = m.log]
    /\ UNCHANGED <<lk, sec, files, shredQueue, thr, now, fb, calls, sessionVars, tripVars>>

\* main, `session.Destroy()` and the memguard.Purge() that follows it.
MainDestroySession ==
    /\ proc.pc = "destroy_session"
    /\ session' = <<>>
    /\ proc' = [proc EXCEPT !.pc = "return",
                            !.did = Append(@, "destroy_session") \o <<"purge">>]
    /\ ret' = Ret("main", "destroy_session")
    /\ UNCHANGED <<lk, sec, allocated, storeVars, now, fb, calls, verified, tripVars>>

\* main returning: one deferred call per step; after the last the process
\* ends.  tripwire.Stop() closes t.done, decoy Destroy() ends the pool.
MainDeferred ==
    /\ proc.pc = "return"
    /\ IF proc.defers = <<>>
       THEN /\ proc' = [proc EXCEPT !.pc = "done", !.exited = TRUE]
            /\ ret' = [Ret("exit", "shutdown") EXCEPT !.n = 0]
       ELSE LET i == NextDeferred(proc.defers)
                call == proc.defers[i]
            IN
            /\ proc' = [proc EXCEPT
                    !.defers = RemoveAt(@, i),
                    !.watching = IF call = "stop_tripwire" THEN FALSE ELSE @,
                    !.decoys = IF call = "destroy_decoys" THEN FALSE ELSE @,
                    !.did = Append(@, call)]
            /\ ret' = Ret("main", call)
    /\ UNCHANGED <<lk, sec, allocated, storeVars, now, fb, calls, sessionVars, tripVars>>

\* ---------------------------------------------------------------- FileStore
IdleThr == [pc |-> "idle", buf |-> 0, n |-> 0, id |-> <<>>, at |-> 0, slot |-> "",
            content |-> <<>>, file |-> <<>>]
Filenames == {"a.txt", ".."}
\* validate.Filename rejects the empty name and path traversal.
FilenameOk(name) == name \notin {"", ".."}
FileContents == {<<>>, <<7>>, <<1, 2>>, <<3, 3, 3>>}
FileIds == {GenerateFileID(r) : r \in RandomFileIDs}
\* An id a client sends in upper case.
ShoutedId == [i \in 1 .. FileIDLength |-> IF i % 2 = 1 THEN "A" ELSE "B"]

\* NewFortifiedBuffer fails on empty data and when crypto/rand fails.
FortifyOk(content, rngOk) == content # <<>> /\ rngOk

\* NewFortifiedBuffer succeeding: a new buffer, registered with the tripwire.
Fortify(content) ==
    /\ bufs' = Append(bufs, NewBuffer(content))
    /\ RegisterCallback(Len(bufs) + 1)

\* A Store that forgets the Free on its failure paths.
StoreUndoForgotten(a, n) == a
\* What Store gives back to the tracker when it fails after Allocate.
StoreUndo(a, n) == Free(a, n)

\* FileStore.Store up to the return of NewFortifiedBuffer.  Every failure
\* path returns here; the deferred Shred(content) runs on each.
StoreBegin(t, filename, content, random, rngOk) ==
    LET n == Len(content)
        r == Allocate(allocated, n)
        Fail(res, a) ==
            /\ allocated' = a
            /\ ret' = [Ret("store", res) EXCEPT !.n = n, !.slice = Shred(content)]
            /\ UNCHANGED <<lk, sec, proc, bufs, thr, callbacks, spawned, registered>>
    IN
    /\ thr[t].pc = "idle"
    /\ random # <<>> =>
          /\ ~HasFile(files, GenerateFileID(random))
          /\ \A u \in Threads : thr[u].id # GenerateFileID(random)
    /\ IF ~FilenameOk(filename) THEN Fail("invalid_filename", allocated)
       ELSE IF n > MaxFileSize THEN Fail("too_large", allocated)
       ELSE IF ~r.ok THEN Fail("storage_full", allocated)
       ELSE IF random = <<>> THEN Fail("random", StoreUndo(r.allocated, n))
       ELSE IF ~FortifyOk(content, rngOk) THEN Fail("buffer", StoreUndo(r.allocated, n))
       ELSE /\ Fortify(content)
            /\ allocated' = r.allocated
            /\ thr' = [thr EXCEPT ![t] =
                    [pc |-> "store", buf |-> Len(bufs) + 1, n |-> n,
                     id |-> GenerateFileID(random), at |-> now, slot |-> "",
                     content |-> <<>>, file |-> <<>>]]
            /\ ret' = [Ret("store", "pending") EXCEPT !.n = n]
    /\ UNCHANGED <<lk, sec, proc, files, text, image, shredQueue, now, fb, calls, sessionVars, triggered,
                   trigTask, invoked>>

\* FileStore.Store from buf.Size() on: the entry records the size the buffer
\* reports now, and goes into the map.
StoreInsert(t) ==
    /\ thr[t].pc = "store"
    /\ files' = PutFile(files,
            NewEntry(thr[t].id, thr[t].buf, <<>>, BufferSize(bufs[thr[t].buf]),
                     thr[t].at, FileExpiry, thr[t].n, "store"))
    /\ thr' = [thr EXCEPT ![t] = IdleThr]
    /\ ret' = [Ret("store", "ok") EXCEPT
                 !.id = thr[t].id, !.n = thr[t].n, !.slice = Zeros(thr[t].n)]
    /\ UNCHANGED <<lk, sec, proc, allocated, text, image, shredQueue, bufs, now, fb, calls, sessionVars, tripVars>>

\* A Get that hands out the ciphertext of an entry that has no plaintext.
GetCiphertextToo(id) ==
    /\ ret' =
         IF ~ValidFileID(id) \/ ~HasFile(files, NormalFileID(id))
         THEN [Ret("get", "not_found") EXCEPT !.id = id]
         ELSE LET f == FileAt(files, NormalFileID(id)) IN
              IF Expired(f) THEN [Ret("get", "expired") EXCEPT !.id = id]
              ELSE IF f.data = 0
                   THEN [Ret("get", "ok") EXCEPT !.id = id, !.val = f.encrypted[1]]
              ELSE IF bufs[f.data].destroyed THEN [Ret("get", "destroyed") EXCEPT !.id = id]
              ELSE [Ret("get", "ok") EXCEPT !.id = id, !.val = bufs[f.data].content]
    /\ UNCHANGED <<lk, sec, proc, allocated, storeVars, now, fb, calls, sessionVars, tripVars>>

\* FileStore.Get; Use fails once the buffer is destroyed.
Get(id) ==
    /\ ret' =
         IF ~ValidFileID(id) \/ ~HasFile(files, NormalFileID(id))
         THEN [Ret("get", "not_found") EXCEPT !.id = id]
         ELSE LET f == FileAt(files, NormalFileID(id)) IN
              IF Expired(f) THEN [Ret("get", "expired") EXCEPT !.id = id]
              ELSE IF f.data = 0 THEN [Ret("get", "not_found") EXCEPT !.id = id]
              ELSE IF bufs[f.data].destroyed THEN [Ret("get", "destroyed") EXCEPT !.id = id]
              ELSE [Ret("get", "ok") EXCEPT !.id = id, !.val = bufs[f.data].content]
    /\ UNCHANGED <<lk, sec, proc, allocated, storeVars, now, fb, calls, sessionVars, tripVars>>

\* FileStore.GetMetadata
GetMetadata(id) ==
    /\ ret' =
         IF ~ValidFileID(id) \/ ~HasFile(files, NormalFileID(id))
         THEN [Ret("get_metadata", "not_found") EXCEPT !.id = id]
         ELSE LET f == FileAt(files, NormalFileID(id)) IN
              IF Expired(f) THEN [Ret("get_metadata", "expired") EXCEPT !.id = id]
              ELSE [Ret("get_metadata", "ok") EXCEPT !.id = id, !.n = f.size]
    /\ UNCHANGED <<lk, sec, proc, allocated, storeVars, now, fb, calls, sessionVars, tripVars>>

\* FileInfo, as List builds it.
FileInfo(f) ==
    [id |-> f.id, size |-> f.size, createdAt |-> f.createdAt, expiresAt |-> f.expiresAt]
\* The orders sort.Slice may leave: newest first, ties in any order.
NewestFirst(infos) ==
    {q \in [1 .. Cardinality(infos) -> infos] :
        /\ \A i, j \in 1 .. Cardinality(infos) : i # j => q[i] # q[j]
        /\ \A i, j \in 1 .. Cardinality(infos) : i < j => q[i].createdAt >= q[j].createdAt}

\* FileStore.List
List ==
    /\ \E q \in NewestFirst({FileInfo(f) : f \in {x \in files : ~Expired(x)}}) :
          ret' = [Ret("list", "ok") EXCEPT !.val = q, !.n = Len(q)]
    /\ UNCHANGED <<lk, sec, proc, allocated, storeVars, now, fb, calls, sessionVars, tripVars>>

\* FileStore.Count
Count ==
    /\ ret' = [Ret("count", "ok") EXCEPT !.n = Cardinality(files)]
    /\ UNCHANGED <<lk, sec, proc, allocated, storeVars, now, fb, calls, sessionVars, tripVars>>

\* FileStore.Delete
Delete(id) ==
    IF ~ValidFileID(id) \/ ~HasFile(files, NormalFileID(id))
    THEN /\ ret' = [Ret("delete", "not_found") EXCEPT !.id = id]
              /\ UNCHANGED <<lk, sec, proc, allocated, storeVars, now, fb, calls, sessionVars, tripVars>>
    ELSE LET f == FileAt(files, NormalFileID(id))
             m == shredFile(Mem(allocated, bufs, {}), f)
         IN
         /\ files' = files \ {f}
         /\ allocated' = m.allocated
         /\ bufs' = m.bufs
         /\ ret' = [Ret("delete", "ok") EXCEPT !.id = id, !.log = m.log]
         /\ UNCHANGED <<lk, sec, proc, text, image, shredQueue, thr, now, fb, calls, sessionVars, tripVars>>

\* FileStore.ShredAll: every file, under fs.mu.
FilesShredAll ==
    LET m == ShredFiles(Mem(allocated, bufs, {}), files) IN
    /\ files' = {}
    /\ allocated' = m.allocated
    /\ bufs' = m.bufs
    /\ ret' = [Ret("files_shred_all", "ok") EXCEPT !.n = Cardinality(files), !.log = m.log]
    /\ UNCHANGED <<lk, sec, proc, text, image, shredQueue, thr, now, fb, calls, sessionVars, tripVars>>

\* fs.mu is free of writers: no thread is inside ShredAll.
FsFree == \A t \in Threads : thr[t].pc # "shred_all"

\* FileStore.ShredAll, one statement at a time: `fs.mu.Lock()` and
\* `count := len(fs.files)`.
ShredAllLock(t) ==
    /\ thr[t].pc = "idle" /\ FsFree
    /\ thr' = [thr EXCEPT ![t] = [IdleThr EXCEPT !.pc = "shred_all",
                                                  !.n = Cardinality(files)]]
    /\ ret' = [Ret("files_shred_all", "locked") EXCEPT !.n = Cardinality(files)]
    /\ UNCHANGED <<lk, sec, proc, allocated, files, text, image, shredQueue, bufs, now, fb, calls,
                   sessionVars, tripVars>>

\* One turn of its loop: `fs.shredFile(file); delete(fs.files, id)`, in the
\* order the map iteration gives.
ShredAllNext(t) ==
    /\ thr[t].pc = "shred_all"
    /\ \E f \in files :
          LET m == shredFile(Mem(allocated, bufs, {}), f) IN
          /\ files' = files \ {f}
          /\ allocated' = m.allocated
          /\ bufs' = m.bufs
          /\ ret' = [Ret("shred_file", "ok") EXCEPT !.id = f.id, !.log = m.log]
    /\ UNCHANGED <<lk, sec, proc, text, image, shredQueue, thr, now, fb, calls, sessionVars, tripVars>>

\* The loop is over: `return count`, and the deferred `fs.mu.Unlock()`.
ShredAllUnlock(t) ==
    /\ thr[t].pc = "shred_all" /\ files = {}
    /\ thr' = [thr EXCEPT ![t] = IdleThr]
    /\ ret' = [Ret("files_shred_all", "ok") EXCEPT !.n = thr[t].n]
    /\ UNCHANGED <<lk, sec, proc, allocated, files, text, image, shredQueue, bufs, now, fb, calls,
                   sessionVars, tripVars>>

\* The caller's callback that panics when it is called.
Panics(cb) == cb = 2

\* The loop of Tripwire.trigger at a callback that panics: `cb()` is not
\* guarded by a recover, so the panic leaves the loop and trigger, and the
\* callbacks behind it in the copy are not called.  In the goroutine of
\* watchLoop nothing recovers it and the runtime ends the process; a caller
\* of ManualTrigger gets the panic.
TriggerPanic(task) ==
    /\ trigTask[task].pc = "running"
    /\ Panics(trigTask[task].snap[trigTask[task].i])
    /\ invoked' = Invoke(invoked, trigTask[task].snap[trigTask[task].i], task)
    /\ trigTask' = [trigTask EXCEPT ![task].pc = "panicked"]
    /\ proc' = [proc EXCEPT !.exited = (task = "watcher") \/ @]
    /\ ret' = [Ret("callback", "panic") EXCEPT !.n = trigTask[task].snap[trigTask[task].i]]
    /\ UNCHANGED <<lk, sec, allocated, storeVars, now, fb, calls, sessionVars, triggered, callbacks,
                   spawned, registered>>

\* The goroutine of a late registration whose callback panics: the process
\* ends.
SpawnedPanic(cb) ==
    /\ cb \in spawned /\ Panics(cb)
    /\ spawned' = spawned \ {cb}
    /\ invoked' = Invoke(invoked, cb, "spawn")
    /\ proc' = [proc EXCEPT !.exited = TRUE]
    /\ ret' = [Ret("callback", "panic") EXCEPT !.n = cb]
    /\ UNCHANGED <<lk, sec, allocated, storeVars, now, fb, calls, sessionVars, triggered, callbacks,
                   trigTask, registered>>

\* ---------------------------------------------- Get against the destroyers
\* FileStore.Get one statement at a time.  A thread past GetLockFile holds
\* file.mu.RLock, a thread in "get_read" holds fb.mu.RLock as well; the
\* writers (shredFile, fb.Destroy) take their locks exclusively and keep them
\* for one step.  Each element of a buffer's content stands for one chunk.
FileReaders(h) == {t \in Threads : thr[t].pc \in {"get_file", "get_read"} /\ thr[t].buf = h}
BufReaders(h) == {t \in Threads : thr[t].pc = "get_read" /\ thr[t].buf = h}
\* A Destroy that does not wait for the readers of the buffer.
BufFreeAlways(h) == TRUE
\* fb.mu.Lock() can be taken: no reader is inside Read.
BufFree(h) == BufReaders(h) = {}
\* file.mu.Lock() can be taken: no reader is inside Get.
FileFree(h) == FileReaders(h) = {}

\* validate.FileID and the lookup under fs.mu.RLock.
GetFind(t, id) ==
    /\ thr[t].pc = "idle" /\ FsFree
    /\ IF ~ValidFileID(id) \/ ~HasFile(files, NormalFileID(id))
       THEN /\ ret' = [Ret("get", "not_found") EXCEPT !.id = id]
            /\ thr' = thr
       ELSE LET f == FileAt(files, NormalFileID(id)) IN
            /\ thr' = [thr EXCEPT ![t] = [IdleThr EXCEPT !.pc = "get_found",
                            !.buf = f.data, !.id = f.id, !.at = f.expiresAt]]
            /\ ret' = [Ret("get", "found") EXCEPT !.id = id]
    /\ UNCHANGED <<lk, sec, proc, allocated, files, text, image, shredQueue, bufs, now, fb, calls,
                   sessionVars, tripVars>>

\* file.mu.RLock(), the expiry check and `file.data == nil`; shredFile has
\* set file.data to nil once it has shredded the buffer.
GetLockFile(t) ==
    /\ thr[t].pc = "get_found"
    /\ LET h == thr[t].buf
           Fail(res) == /\ ret' = [Ret("get", res) EXCEPT !.id = thr[t].id]
                        /\ thr' = [thr EXCEPT ![t] = IdleThr]
       IN IF now > thr[t].at THEN Fail("expired")
          ELSE IF h = 0 \/ bufs[h].shreds > 0 THEN Fail("not_found")
          ELSE /\ thr' = [thr EXCEPT ![t].pc = "get_file"]
               /\ ret' = [Ret("get", "file_locked") EXCEPT !.id = thr[t].id]
    /\ UNCHANGED <<lk, sec, proc, allocated, files, text, image, shredQueue, bufs, now, fb, calls,
                   sessionVars, tripVars>>

\* file.data.Use: Read takes fb.mu.RLock(), fails on a destroyed buffer and
\* else makes `result` of totalSize bytes.
GetLockBuffer(t) ==
    /\ thr[t].pc = "get_file"
    /\ LET h == thr[t].buf IN
       IF bufs[h].destroyed
       THEN /\ ret' = [Ret("get", "destroyed") EXCEPT !.id = thr[t].id]
            /\ thr' = [thr EXCEPT ![t] = IdleThr]
       ELSE /\ thr' = [thr EXCEPT ![t].pc = "get_read", ![t].n = BufferSize(bufs[h])]
            /\ ret' = [Ret("get", "buffer_locked") EXCEPT !.id = thr[t].id]
    /\ UNCHANGED <<lk, sec, proc, allocated, files, text, image, shredQueue, bufs, now, fb, calls,
                   sessionVars, tripVars>>

\* One turn of the loop of readScatterObfuscate: the next chunk goes into
\* the result; a chunk that is gone leaves its zeros there.
GetReadChunk(t) ==
    /\ thr[t].pc = "get_read"
    /\ Len(thr[t].content) < thr[t].n
    /\ LET i == Len(thr[t].content) + 1
           data == bufs[thr[t].buf].content
       IN thr' = [thr EXCEPT ![t].content = Append(@, IF i <= Len(data) THEN data[i] ELSE 0)]
    /\ ret' = [Ret("get", "chunk") EXCEPT !.id = thr[t].id]
    /\ UNCHANGED <<lk, sec, proc, allocated, files, text, image, shredQueue, bufs, now, fb, calls,
                   sessionVars, tripVars>>

\* Read returns, the callback of Use copies the bytes, both locks are given
\* up and Get returns the copy.
GetReturn(t) ==
    /\ thr[t].pc = "get_read"
    /\ Len(thr[t].content) = thr[t].n
    /\ ret' = [Ret("get", "ok") EXCEPT !.id = thr[t].id, !.val = thr[t].content]
    /\ thr' = [thr EXCEPT ![t] = IdleThr]
    /\ UNCHANGED <<lk, sec, proc, allocated, files, text, image, shredQueue, bufs, now, fb, calls,
                   sessionVars, tripVars>>

\* FileStore.Delete up to fs.mu.Unlock(): the entry leaves the map.
DeleteRemove(t, id) ==
    /\ thr[t].pc = "idle" /\ FsFree
    /\ IF ~ValidFileID(id) \/ ~HasFile(files, NormalFileID(id))
       THEN /\ ret' = [Ret("delete", "not_found") EXCEPT !.id = id]
            /\ UNCHANGED <<files, thr>>
       ELSE LET f == FileAt(files, NormalFileID(id)) IN
            /\ files' = files \ {f}
            /\ thr' = [thr EXCEPT ![t] = [IdleThr EXCEPT !.pc = "delete", !.buf = f.data,
                                                         !.id = f.id, !.file = <<f>>]]
            /\ ret' = [Ret("delete", "removed") EXCEPT !.id = id]
    /\ UNCHANGED <<lk, sec, proc, allocated, text, image, shredQueue, bufs, now, fb, calls,
                   sessionVars, tripVars>>

\* Its fs.shredFile(file): file.mu.Lock(), Free, ShredFortifiedBuffer (which
\* takes fb.mu.Lock() in Destroy), file.data = nil.
DeleteShred(t) ==
    /\ thr[t].pc = "delete"
    /\ FileFree(thr[t].buf) /\ BufFree(thr[t].buf)
    /\ LET m == shredFile(Mem(allocated, bufs, {}), thr[t].file[1]) IN
       /\ allocated' = m.allocated
       /\ bufs' = m.bufs
       /\ ret' = [Ret("delete", "ok") EXCEPT !.id = thr[t].id, !.log = m.log]
    /\ thr' = [thr EXCEPT ![t] = IdleThr]
    /\ UNCHANGED <<lk, sec, proc, files, text, image, shredQueue, now, fb, calls, sessionVars, tripVars>>

\* The loop of Tripwire.trigger at the callback of a buffer: fb.Destroy()
\* waits for fb.mu.
TriggerDestroy(task) ==
    /\ trigTask[task].pc = "running"
    /\ BufFree(trigTask[task].snap[trigTask[task].i])
    /\ TriggerInvoke(task)

\* FileStore.cleanupExpired: the files past expiresAt, under fs.mu.
FilesCleanupExpired ==
    LET old == {f \in files : Expired(f)}
        m == ShredFiles(Mem(allocated, bufs, {}), old)
    IN
    /\ files' = files \ old
    /\ allocated' = m.allocated
    /\ bufs' = m.bufs
    /\ ret' = [Ret("files_cleanup", "ok") EXCEPT !.n = Cardinality(old), !.log = m.log]
    /\ UNCHANGED <<lk, sec, proc, text, image, shredQueue, thr, now, fb, calls, sessionVars, tripVars>>
\* ----------------------------------------------------------- ClipboardStore
Slots == {"text", "image"}
ClipContents == {<<>>, <<5>>, <<6, 6>>, <<8, 8, 8, 8>>}
SlotOf(k) == IF k = "text" THEN text ELSE image
\* cs.text = v or cs.image = v
SetSlot(k, v) ==
    IF k = "text" THEN text' = v /\ image' = image ELSE image' = v /\ text' = text

\* A background shred that destroys the data but forgets the tracker.
shredEntryAsyncNoFree(m, entry) ==
    Mem(m.allocated,
        IF entry.data # 0 THEN ShredFortifiedBuffer(m.bufs, entry.data) ELSE m.bufs,
        m.log)
\* The goroutine of shredEntryAsync.
shredEntryAsync(m, entry) == shredEntry(m, entry)

\* ClipboardStore.SetText / SetImage up to the return of NewFortifiedBuffer.
SetBegin(t, k, content, rngOk) ==
    /\ thr[t].pc = "idle"
    /\ IF ~FortifyOk(content, rngOk)
       THEN /\ ret' = [Ret("set_" \o k, "buffer") EXCEPT
                        !.n = Len(content), !.slice = Shred(content)]
            /\ UNCHANGED <<lk, sec, proc, bufs, thr, callbacks, spawned, registered>>
       ELSE /\ Fortify(content)
            /\ thr' = [thr EXCEPT ![t] =
                    [pc |-> "set", buf |-> Len(bufs) + 1, n |-> Len(content),
                     id |-> <<>>, at |-> now, slot |-> k,
                     content |-> <<>>, file |-> <<>>]]
            /\ ret' = [Ret("set_" \o k, "pending") EXCEPT !.n = Len(content)]
    /\ UNCHANGED <<lk, sec, proc, allocated, files, text, image, shredQueue, now, fb, calls, sessionVars,
                   triggered, trigTask, invoked>>

\* SetText / SetImage from buf.Size() on: under cs.mu, Allocate and swap; the
\* displaced entry goes to shredEntryAsync.
SetSwap(t) ==
    LET k == thr[t].slot
        h == thr[t].buf
        n == thr[t].n
        r == Allocate(allocated, n)
        old == SlotOf(k)
    IN
    /\ thr[t].pc = "set"
    /\ IF ~r.ok
       THEN /\ bufs' = BufferDestroy(bufs, h)
            /\ ret' = [Ret("set_" \o k, "limit") EXCEPT !.n = n, !.slice = Zeros(n)]
            /\ UNCHANGED <<lk, sec, proc, allocated, text, image, shredQueue>>
       ELSE /\ allocated' = r.allocated
            /\ SetSlot(k, <<NewEntry(<<>>, h, <<>>, BufferSize(bufs[h]), thr[t].at,
                                     ClipboardExpiry, n, "set_" \o k)>>)
            /\ shredQueue' = IF old = <<>> THEN shredQueue ELSE Append(shredQueue, old[1])
            /\ ret' = [Ret("set_" \o k, "ok") EXCEPT !.n = n, !.slice = Zeros(n)]
            /\ bufs' = bufs
    /\ thr' = [thr EXCEPT ![t] = IdleThr]
    /\ UNCHANGED <<lk, sec, proc, files, now, fb, calls, sessionVars, tripVars>>

\* One shredEntryAsync goroutine running to completion.
ShredAsyncRun(i) ==
    /\ i \in 1 .. Len(shredQueue)
    /\ LET m == shredEntryAsync(Mem(allocated, bufs, {}), shredQueue[i]) IN
       /\ allocated' = m.allocated
       /\ bufs' = m.bufs
       /\ ret' = [Ret("shred_async", "ok") EXCEPT !.log = m.log]
    /\ shredQueue' = RemoveAt(shredQueue, i)
    /\ UNCHANGED <<lk, sec, proc, files, text, image, thr, now, fb, calls, sessionVars, tripVars>>

\* ClipboardStore.GetText / GetImage
GetClip(k) ==
    /\ ret' =
         IF SlotOf(k) = <<>> THEN Ret("get_" \o k, "empty")
         ELSE LET e == SlotOf(k)[1] IN
              IF Expired(e) THEN Ret("get_" \o k, "expired")
              ELSE IF e.data = 0 THEN Ret("get_" \o k, "empty")
              ELSE IF bufs[e.data].destroyed THEN Ret("get_" \o k, "destroyed")
              ELSE [Ret("get_" \o k, "ok") EXCEPT !.val = bufs[e.data].content]
    /\ UNCHANGED <<lk, sec, proc, allocated, storeVars, now, fb, calls, sessionVars, tripVars>>

\* ClipboardStore.TextInfo / ImageInfo
ClipInfo(k) ==
    /\ ret' =
         IF SlotOf(k) = <<>> THEN Ret("info_" \o k, "no_content")
         ELSE LET e == SlotOf(k)[1] IN
              IF Expired(e) THEN Ret("info_" \o k, "no_content")
              ELSE [Ret("info_" \o k, "ok") EXCEPT !.n = e.size]
    /\ UNCHANGED <<lk, sec, proc, allocated, storeVars, now, fb, calls, sessionVars, tripVars>>

\* ClipboardStore.DeleteText / DeleteImage
DeleteClip(k) ==
    LET m == ShredSlot(Mem(allocated, bufs, {}), SlotOf(k)) IN
    /\ SetSlot(k, <<>>)
    /\ allocated' = m.allocated
    /\ bufs' = m.bufs
    /\ ret' = [Ret("delete_" \o k, "ok") EXCEPT !.log = m.log]
    /\ UNCHANGED <<lk, sec, proc, files, shredQueue, thr, now, fb, calls, sessionVars, tripVars>>

\* ClipboardStore.ShredAll: text, then image, under cs.mu.
ClipboardShredAll ==
    LET m == ShredSlot(ShredSlot(Mem(allocated, bufs, {}), text), image) IN
    /\ text' = <<>>
    /\ image' = <<>>
    /\ allocated' = m.allocated
    /\ bufs' = m.bufs
    /\ ret' = [Ret("clipboard_shred_all", "ok") EXCEPT !.log = m.log]
    /\ UNCHANGED <<lk, sec, proc, files, shredQueue, thr, now, fb, calls, sessionVars, tripVars>>

\* ClipboardStore.cleanupExpired
ClipboardCleanupExpired ==
    LET oldText == IF text # <<>> /\ Expired(text[1]) THEN text ELSE <<>>
        oldImage == IF image # <<>> /\ Expired(image[1]) THEN image ELSE <<>>
        m == ShredSlot(ShredSlot(Mem(allocated, bufs, {}), oldText), oldImage)
    IN
    /\ text' = IF oldText # <<>> THEN <<>> ELSE text
    /\ image' = IF oldImage # <<>> THEN <<>> ELSE image
    /\ allocated' = m.allocated
    /\ bufs' = m.bufs
    /\ ret' = [Ret("clipboard_cleanup", "ok") EXCEPT !.log = m.log]
    /\ UNCHANGED <<lk, sec, proc, files, shredQueue, thr, now, fb, calls, sessionVars, tripVars>>

\* The clock.
Tick ==
    /\ now < MaxTime
    /\ now' = now + 1
    /\ ret' = [Ret("tick", "ok") EXCEPT !.n = now + 1]
    /\ UNCHANGED <<lk, sec, proc, allocated, storeVars, fb, calls, sessionVars, tripVars>>

\* ------------------------------------------------------------------- base64
\* encoding/base64 StdEncoding: three bytes to four characters, padded with =.
B64Alphabet ==
    <<"A", "B", "C", "D", "E", "F", "G", "H", "I", "J", "K", "L", "M",
      "N", "O", "P", "Q", "R", "S", "T", "U", "V", "W", "X", "Y", "Z",
      "a", "b", "c", "d", "e", "f", "g", "h", "i", "j", "k", "l", "m",
      "n", "o", "p", "q", "r", "s", "t", "u", "v", "w", "x", "y", "z",
      "0", "1", "2", "3", "4", "5", "6", "7", "8", "9", "+", "/">>
ByteAt(data, i) == IF i <= Len(data) THEN data[i] ELSE 0
B64EncodeToString(data) ==
    [p \in 1 .. 4 * ((Len(data) + 2) \div 3) |->
        LET g == (p - 1) \div 4
            k == (p - 1) % 4
            v == ByteAt(data, 3 * g + 1) * 65536 + ByteAt(data, 3 * g + 2) * 256
                 + ByteAt(data, 3 * g + 3)
        IN
        IF k = 2 /\ 3 * g + 2 > Len(data) THEN "="
        ELSE IF k = 3 /\ 3 * g + 3 > Len(data) THEN "="
        ELSE B64Alphabet[((v \div (64 ^ (3 - k))) % 64) + 1]]

B64Value(c) == (CHOOSE i \in 1 .. 64 : B64Alphabet[i] = c) - 1
\* The number of = a well-formed string ends with.
B64Pads(w) ==
    IF Len(w) = 0 THEN 0
    ELSE IF w[Len(w)] # "=" THEN 0
    ELSE IF w[Len(w) - 1] # "=" THEN 1 ELSE 2
\* DecodeString accepts whole groups of four, = only as the last one or two.
B64Ok(w) ==
    /\ Len(w) % 4 = 0
    /\ \A p \in 1 .. Len(w) - B64Pads(w) : \E i \in 1 .. 64 : B64Alphabet[i] = w[p]
B64DecodeString(w) ==
    [q \in 1 .. 3 * (Len(w) \div 4) - B64Pads(w) |->
        LET g == (q - 1) \div 3
            k == (q - 1) % 3
            Sextet(j) == IF w[4 * g + j] = "=" THEN 0 ELSE B64Value(w[4 * g + j])
            v == Sextet(1) * 262144 + Sextet(2) * 4096 + Sextet(3) * 64 + Sextet(4)
        IN (v \div (256 ^ (2 - k))) % 256]

\* ------------------------------------------------- encrypted blobs (stores)
\* What a client may send as ciphertext, and a string that is not base64.
Cipher == <<201>>
Wires == {B64EncodeToString(Cipher), <<"!">>}
\* The Size a client states for its blob.
StatedSizes == {Len(Cipher)}
EncryptedFileInfos ==
    [id : {GenerateFileID(r) : r \in {RandomA}}, size : StatedSizes, b64 : Wires]
EncryptedFileLists ==
    {<<>>} \cup {<<f>> : f \in EncryptedFileInfos}

\* The StoredFile the encrypted paths build: ciphertext, no buffer, the
\* client's Size, nothing reserved.
EncryptedFile(f, origin) ==
    NewEntry(f.id, 0, <<B64DecodeString(f.b64)>>, f.size, now, FileExpiry, 0, origin)

\* `for _, f := range files { ... fs.files[f.ID] = ... }`
RECURSIVE PutEncrypted(_, _)
PutEncrypted(fls, list) ==
    IF list = <<>> THEN fls
    ELSE PutEncrypted(
            IF B64Ok(Head(list).b64)
            THEN PutFile(fls, EncryptedFile(Head(list), "set_encrypted_files"))
            ELSE fls,
            Tail(list))

\* FileStore.SetEncryptedFiles
SetEncryptedFiles(list) ==
    LET m == ShredFiles(Mem(allocated, bufs, {}), files) IN
    /\ files' = PutEncrypted({}, list)
    /\ allocated' = m.allocated
    /\ bufs' = m.bufs
    /\ ret' = [Ret("set_encrypted_files", "ok") EXCEPT !.n = Len(list), !.log = m.log]
    /\ UNCHANGED <<lk, sec, proc, text, image, shredQueue, thr, now, fb, calls, sessionVars, tripVars>>

\* FileStore.AddEncryptedFile
AddEncryptedFile(f) ==
    /\ IF B64Ok(f.b64)
       THEN /\ files' = PutFile(files, EncryptedFile(f, "add_encrypted_file"))
            /\ ret' = [Ret("add_encrypted_file", "ok") EXCEPT !.id = f.id, !.n = f.size]
       ELSE /\ files' = files
            /\ ret' = [Ret("add_encrypted_file", "bad_base64") EXCEPT !.id = f.id, !.n = f.size]
    /\ UNCHANGED <<lk, sec, proc, allocated, text, image, shredQueue, bufs, thr, now, fb, calls, sessionVars, tripVars>>

\* FileStore.GetEncryptedFiles: the entries that carry ciphertext, re-encoded.
GetEncryptedFiles ==
    SetToSeq({[id |-> f.id, size |-> f.size, b64 |-> B64EncodeToString(f.encrypted[1])] :
              f \in {x \in files : x.encrypted # <<>>}})

\* A call of FileStore.GetEncryptedFiles.
CallGetEncryptedFiles ==
    /\ ret' = [Ret("get_encrypted_files", "ok") EXCEPT
                 !.val = GetEncryptedFiles, !.n = Len(GetEncryptedFiles)]
    /\ UNCHANGED <<lk, sec, proc, allocated, storeVars, now, fb, calls, sessionVars, tripVars>>

\* FileStore.ClearEncryptedData
FilesClearEncryptedData ==
    /\ files' = {[f EXCEPT !.encrypted = <<>>] : f \in {x \in files : x.data # 0}}
    /\ ret' = [Ret("files_clear_encrypted", "ok") EXCEPT !.n = Cardinality(files)]
    /\ UNCHANGED <<lk, sec, proc, allocated, text, image, shredQueue, bufs, thr, now, fb, calls, sessionVars, tripVars>>

\* ClipboardStore.SetEncryptedText / SetEncryptedImage
SetEncryptedClip(k, encrypted) ==
    IF Len(encrypted) = 0
    THEN /\ ret' = Ret("set_encrypted_" \o k, "ignored")
         /\ UNCHANGED <<lk, sec, proc, allocated, storeVars, now, fb, calls, sessionVars, tripVars>>
    ELSE LET m == ShredSlot(Mem(allocated, bufs, {}), SlotOf(k)) IN
         /\ SetSlot(k, <<NewEntry(<<>>, 0, <<encrypted>>, Len(encrypted), now,
                                  ClipboardExpiry, 0, "set_encrypted_" \o k)>>)
         /\ allocated' = m.allocated
         /\ bufs' = m.bufs
         /\ ret' = [Ret("set_encrypted_" \o k, "ok") EXCEPT
                      !.n = Len(encrypted), !.log = m.log]
         /\ UNCHANGED <<lk, sec, proc, files, shredQueue, thr, now, fb, calls, sessionVars, tripVars>>

\* ClipboardStore.GetEncryptedText / GetEncryptedImage: <<>> for nil.
GetEncryptedClip(k) ==
    IF SlotOf(k) = <<>> \/ SlotOf(k)[1].encrypted = <<>> THEN <<>>
    ELSE SlotOf(k)[1].encrypted[1]

\* A call of ClipboardStore.GetEncryptedText / GetEncryptedImage.
CallGetEncryptedClip(k) ==
    /\ ret' = IF SlotOf(k) = <<>> \/ SlotOf(k)[1].encrypted = <<>>
              THEN Ret("get_encrypted_" \o k, "nil")
              ELSE [Ret("get_encrypted_" \o k, "ok") EXCEPT !.val = GetEncryptedClip(k)]
    /\ UNCHANGED <<lk, sec, proc, allocated, storeVars, now, fb, calls, sessionVars, tripVars>>

\* What ClipboardStore.ClearEncryptedData leaves of a slot.
ClearedSlot(slot) ==
    IF slot = <<>> THEN <<>>
    ELSE IF slot[1].data = 0 THEN <<>>
    ELSE <<[slot[1] EXCEPT !.encrypted = <<>>]>>

\* ClipboardStore.ClearEncryptedData
ClipboardClearEncryptedData ==
    /\ text' = ClearedSlot(text)
    /\ image' = ClearedSlot(image)
    /\ ret' = Ret("clipboard_clear_encrypted", "ok")
    /\ UNCHANGED <<lk, sec, proc, allocated, files, shredQueue, bufs, thr, now, fb, calls, sessionVars, tripVars>>

\* ---------------------------------------------- FortifiedBuffer, in detail
\* Go's int, IntBits wide; / truncates toward zero.
IntMod == 2 ^ IntBits
MaxGoInt == IntMod \div 2 - 1
WrapInt(x) == ((x + IntMod \div 2) % IntMod) - IntMod \div 2
Quo(a, b) ==
    IF (a >= 0) = (b >= 0) THEN (IF a >= 0 THEN a ELSE -a) \div (IF b >= 0 THEN b ELSE -b)
    ELSE -((IF a >= 0 THEN a ELSE -a) \div (IF b >= 0 THEN b ELSE -b))

\* ^ on bytes
RECURSIVE Xor(_, _)
Xor(a, b) ==
    IF a = 0 /\ b = 0 THEN 0
    ELSE (((a % 2) + (b % 2)) % 2) + 2 * Xor(a \div 2, b \div 2)

\* What crypto/rand may deliver: pads, and the draws of shuffleOrder.
\* <<>> is a failed read of a pad, -1 a failed read of a draw.
PadSeeds == {90, 255}
RandomPad(seed, size) == [i \in 1 .. size |-> (seed * i) % 256]
Draws == {-1, 7}

\* ObfuscatedBuffer
NewObfuscatedBufferWithInterval(data, pad) ==
    [data |-> [i \in 1 .. Len(data) |-> Xor(data[i], pad[i])],
     pad |-> pad, size |-> Len(data), destroyed |-> FALSE]

\* ObfuscatedBuffer.Read
ObfuscatedRead(ob) == [i \in 1 .. ob.size |-> Xor(ob.data[i], ob.pad[i])]

\* A rotation that installs the new pad and leaves data as it was.
rotatePadOnly(ob, newPad) ==
    IF ob.destroyed \/ newPad = <<>> THEN ob ELSE [ob EXCEPT !.pad = newPad]

\* A rotation that forgets the old pad.
ReobfuscateForgetful(d, oldPad, newPad) == Xor(d, newPad)
\* rotate: `plaintext := ob.data[i] ^ ob.pad[i]; ob.data[i] = plaintext ^ newPad[i]`
Reobfuscate(d, oldPad, newPad) == Xor(Xor(d, oldPad), newPad)

\* ObfuscatedBuffer.rotate; newPad is <<>> when crypto/rand fails.
rotate(ob, newPad) ==
    IF ob.destroyed \/ newPad = <<>> THEN ob
    ELSE [ob EXCEPT !.data = [i \in 1 .. ob.size |->
                                 Reobfuscate(ob.data[i], ob.pad[i], newPad[i])],
                    !.pad = newPad]

\* The chunk size and chunk count both constructors settle on.
DefaultChunkSize == 256
ChunkCount(totalSize, chunkSize) ==
    Quo(WrapInt(WrapInt(totalSize + chunkSize) - 1), chunkSize)
ChunkPlan(totalSize, optChunkSize) ==
    LET cs0 == IF optChunkSize <= 0 THEN DefaultChunkSize ELSE optChunkSize
        n0 == ChunkCount(totalSize, cs0)
        q == Quo(WrapInt(totalSize + 3), 4)
        cs1 == IF q < 1 THEN 1 ELSE q
    IN IF n0 < 4 THEN [chunkSize |-> cs1, numChunks |-> ChunkCount(totalSize, cs1)]
       ELSE [chunkSize |-> cs0, numChunks |-> n0]

\* shuffleOrder: Fisher-Yates from i = n-1 down to 1; draws[i] is what
\* crypto/rand gave at step i. order is 0-based in the code, order[k + 1] here.
SwapOverwriting(order, i, j) == [order EXCEPT ![i + 1] = order[j + 1]]
Swap(order, i, j) ==
    [order EXCEPT ![i + 1] = order[j + 1], ![j + 1] = order[i + 1]]
RECURSIVE ShuffleFrom(_, _, _)
ShuffleFrom(order, i, draws) ==
    IF i <= 0 THEN order
    ELSE ShuffleFrom(Swap(order, i, IF draws[i] < 0 THEN i \div 2 ELSE draws[i] % (i + 1)),
                     i - 1, draws)
shuffleOrder(n, draws) == ShuffleFrom([k \in 1 .. n |-> k - 1], n - 1, draws)

\* The bytes of the chunk whose original position is origPos.
ChunkData(data, origPos, chunkSize) ==
    LET start == origPos * chunkSize
        end == IF start + chunkSize > Len(data) THEN Len(data) ELSE start + chunkSize
    IN IF start >= Len(data) THEN <<>> ELSE SubSeq(data, start + 1, end)

\* `copy(result[start:end], chunk[:end-start])`
CopyInto(result, start, end, chunk) ==
    [k \in 1 .. Len(result) |->
        IF k > start /\ k <= end THEN chunk[k - start] ELSE result[k]]

\* NewScatteredBufferWithChunkSize
NewScatteredBufferWithChunkSize(data, optChunkSize, draws) ==
    LET plan == ChunkPlan(Len(data), optChunkSize)
        order == shuffleOrder(plan.numChunks, draws)
    IN [chunks |-> [i \in 1 .. plan.numChunks |-> ChunkData(data, order[i], plan.chunkSize)],
        order |-> order, chunkSize |-> plan.chunkSize, totalSize |-> Len(data),
        destroyed |-> FALSE]

\* ScatteredBuffer.Read
RECURSIVE ScatteredPlace(_, _, _)
ScatteredPlace(sb, result, i) ==
    IF i > Len(sb.order) THEN result
    ELSE LET chunk == sb.chunks[i]
             start == sb.order[i] * sb.chunkSize
             end == IF start + Len(chunk) > sb.totalSize THEN sb.totalSize
                    ELSE start + Len(chunk)
         IN IF Len(chunk) = 0 \/ start >= sb.totalSize
            THEN ScatteredPlace(sb, result, i + 1)
            ELSE ScatteredPlace(sb, CopyInto(result, start, end, chunk), i + 1)
ScatteredRead(sb) == ScatteredPlace(sb, Zeros(sb.totalSize), 1)

\* FortifiedOptions, and the inputs a buffer is built from.
ChunkSizes == {-1, 0, 1, 2, 3, MaxGoInt}
FortifiedOptions == [useObfuscation : BOOLEAN, useScatter : BOOLEAN, chunkSize : ChunkSizes]
BufferInputs ==
    UNION {{[i \in 1 .. n |-> 0], [i \in 1 .. n |-> (i * 67) % 256]} : n \in 1 .. MaxLen}
DrawSeqs == [1 .. MaxLen - 1 -> Draws]

\* The pad of the chunk stored at index i when crypto/rand is seeded with seed.
ChunkPad(seed, i, size) == RandomPad(seed + i, size)

\* initScatterObfuscate: the obfuscated chunks, stored in shuffled order; a
\* chunk past the end is the placeholder <<0>>.
ObfuscatedChunk(data, origPos, chunkSize, seed, i) ==
    LET chunkData == ChunkData(data, origPos, chunkSize)
        padded == IF Len(chunkData) = 0 THEN <<0>> ELSE chunkData
    IN NewObfuscatedBufferWithInterval(padded, ChunkPad(seed, i, Len(padded)))

\* The FortifiedBuffer NewFortifiedBufferWithOptions returns; orig, rotations
\* (ticks of rotateLoop) and rotated (ticks that installed a pad) are history.
NoBuffer == [obfuscatedChunks |-> <<>>, obfuscated |-> <<>>, scattered |-> <<>>,
             chunkOrder |-> <<>>, chunkSize |-> 0, totalSize |-> 0, destroyed |-> FALSE,
             useObfuscation |-> FALSE, useScatter |-> FALSE, orig |-> <<>>, rotations |-> 0,
             rotated |-> 0]
Fortified(data, opts, seed, draws) ==
    LET base == [NoBuffer EXCEPT !.totalSize = Len(data), !.orig = data,
                                 !.useObfuscation = opts.useObfuscation,
                                 !.useScatter = opts.useScatter]
        plan == ChunkPlan(Len(data), opts.chunkSize)
        order == shuffleOrder(plan.numChunks, draws)
    IN
    IF opts.useScatter /\ opts.useObfuscation
    THEN [base EXCEPT !.chunkSize = plan.chunkSize, !.chunkOrder = order,
                      !.obfuscatedChunks =
                          [i \in 1 .. plan.numChunks |->
                              ObfuscatedChunk(data, order[i], plan.chunkSize, seed, i)]]
    ELSE IF opts.useObfuscation
    THEN [base EXCEPT !.obfuscated =
                          <<NewObfuscatedBufferWithInterval(data, RandomPad(seed, Len(data)))>>]
    ELSE IF opts.useScatter
    THEN [base EXCEPT !.scattered =
                          <<NewScatteredBufferWithChunkSize(data, opts.chunkSize, draws)>>]
    ELSE [base EXCEPT !.obfuscated =
                          <<NewObfuscatedBufferWithInterval(data, RandomPad(seed, Len(data)))>>]

\* readScatterObfuscate
RECURSIVE ObfuscatedPlace(_, _, _)
ObfuscatedPlace(b, result, i) ==
    IF i > Len(b.chunkOrder) THEN result
    ELSE IF i > Len(b.obfuscatedChunks) THEN ObfuscatedPlace(b, result, i + 1)
    ELSE LET chunkData == ObfuscatedRead(b.obfuscatedChunks[i])
             start == b.chunkOrder[i] * b.chunkSize
             end == IF start + Len(chunkData) > b.totalSize THEN b.totalSize
                    ELSE start + Len(chunkData)
             copyLen == end - start
         IN IF start >= b.totalSize THEN ObfuscatedPlace(b, result, i + 1)
            ELSE IF copyLen > 0 /\ copyLen <= Len(chunkData)
            THEN ObfuscatedPlace(b, CopyInto(result, start, end, chunkData), i + 1)
            ELSE ObfuscatedPlace(b, result, i + 1)
readScatterObfuscate(b) == ObfuscatedPlace(b, Zeros(b.totalSize), 1)

\* FortifiedBuffer.Read: the bytes, or <<"destroyed">> for ErrFortifiedDestroyed.
FortifiedRead(b) ==
    IF b.destroyed THEN <<"destroyed">>
    ELSE IF b.obfuscatedChunks # <<>> THEN readScatterObfuscate(b)
    ELSE IF b.obfuscated # <<>> THEN ObfuscatedRead(b.obfuscated[1])
    ELSE IF b.scattered # <<>> THEN ScatteredRead(b.scattered[1])
    ELSE <<"destroyed">>

\* FortifiedBuffer.Size
FortifiedSize(b) == IF b.destroyed THEN 0 ELSE b.totalSize

\* What a construction that fails on a pad leaves in the caller's slice:
\* initScatterObfuscate shreds it on its error path, while
\* NewObfuscatedBufferWithInterval returns before its Shred(data) and
\* NewFortifiedBufferWithOptions returns the error as it is.
SourceAfterFailure(data, opts) ==
    IF opts.useScatter /\ opts.useObfuscation THEN Shred(data) ELSE data

\* NewFortifiedBufferWithOptions; seed is -1 when crypto/rand fails on a pad.
NewFortifiedBufferWithOptions(data, opts, seed, draws) ==
    /\ fb = <<>>
    /\ IF Len(data) = 0
       THEN fb' = fb /\ ret' = Ret("new_fortified", "empty")
       ELSE IF seed < 0 /\ (opts.useObfuscation \/ ~opts.useScatter)
       THEN fb' = fb /\ ret' = [Ret("new_fortified", "random") EXCEPT
                                   !.slice = SourceAfterFailure(data, opts)]
       ELSE /\ fb' = <<Fortified(data, opts, seed, draws)>>
            /\ ret' = [Ret("new_fortified", "ok") EXCEPT
                         !.n = opts.chunkSize, !.slice = Shred(data),
                         !.val = IF opts.useScatter
                                 THEN [i \in 1 .. ChunkPlan(Len(data), opts.chunkSize).numChunks - 1
                                          |-> draws[i]]
                                 ELSE <<>>]
    /\ UNCHANGED <<lk, sec, proc, allocated, storeVars, now, calls, sessionVars, tripVars>>

\* One tick of a rotateLoop goroutine: the single buffer (c = 0) or chunk c.
Rotate(c, seed) ==
    LET b == fb[1]
        Pad(ob) == IF seed < 0 THEN <<>> ELSE RandomPad(seed + c, ob.size) IN
    /\ fb # <<>>
    /\ ~fb[1].destroyed
    /\ b.rotations < MaxRotations
    /\ IF c = 0
       THEN /\ b.obfuscated # <<>>
            /\ fb' = <<[b EXCEPT !.obfuscated = <<rotate(b.obfuscated[1], Pad(b.obfuscated[1]))>>,
                                  !.rotations = @ + 1,
                                  !.rotated = IF seed < 0 THEN @ ELSE @ + 1]>>
       ELSE /\ c <= Len(b.obfuscatedChunks)
            /\ fb' = <<[b EXCEPT !.obfuscatedChunks[c] = rotate(@, Pad(@)),
                                  !.rotations = @ + 1,
                                  !.rotated = IF seed < 0 THEN @ ELSE @ + 1]>>
    /\ ret' = [Ret("rotate", IF seed < 0 THEN "random" ELSE "ok") EXCEPT !.n = c]
    /\ UNCHANGED <<lk, sec, proc, allocated, storeVars, now, calls, sessionVars, tripVars>>

\* FortifiedBuffer.Read
Read ==
    /\ fb # <<>>
    /\ ret' = IF fb[1].destroyed THEN Ret("read", "destroyed")
              ELSE [Ret("read", "ok") EXCEPT !.val = FortifiedRead(fb[1])]
    /\ UNCHANGED <<lk, sec, proc, allocated, storeVars, now, fb, calls, sessionVars, tripVars>>

\* FortifiedBuffer.Size
Size ==
    /\ fb # <<>>
    /\ ret' = [Ret("size", "ok") EXCEPT !.n = FortifiedSize(fb[1])]
    /\ UNCHANGED <<lk, sec, proc, allocated, storeVars, now, fb, calls, sessionVars, tripVars>>

\* FortifiedBuffer.Destroy
Destroy ==
    /\ fb # <<>>
    /\ fb' = IF fb[1].destroyed THEN fb
             ELSE <<[NoBuffer EXCEPT !.destroyed = TRUE, !.orig = fb[1].orig,
                                     !.useObfuscation = fb[1].useObfuscation,
                                     !.useScatter = fb[1].useScatter,
                                     !.rotations = fb[1].rotations,
                                     !.rotated = fb[1].rotated]>>
    /\ ret' = Ret("destroy_fortified", "ok")
    /\ UNCHANGED <<lk, sec, proc, allocated, storeVars, now, calls, sessionVars, tripVars>>

\* A comparison that accepts every candidate.
ConstantTimeCompareAny(a, b) == TRUE

\* A comparison over the bytes both slices have, whatever their lengths.
ConstantTimeComparePrefix(a, b) ==
    \A i \in 1 .. (IF Len(a) < Len(b) THEN Len(a) ELSE Len(b)) : a[i] = b[i]

\* crypto.ConstantTimeCompare: same length and same bytes.
ConstantTimeCompare(a, b) ==
    Len(a) = Len(b) /\ \A i \in 1 .. Len(a) : a[i] = b[i]

\* ------------------------------------------------- SecureBuffer, SecureKey
\* sec.buffers holds every SecureBuffer made so far and sec.keys every
\* SecureKey, by handle. A SecureBuffer is its LockedBuffer's bytes (<<>> for
\* nil) and destroyed; a SecureKey is its enclave's bytes, size, destroyed and
\* mu (0 when free, else the thread holding it). orig is history.
MaxSecure == 2
MaxKeySize == 64
SecureInputs == {<<7, 9>>, <<4>>}
IdleEqual == [pc |-> "idle", k |-> 0, other |-> 0]
NoSecure ==
    [buffers |-> <<>>, keys |-> <<>>, chunks |-> <<>>, fortified |-> "live",
     eq |-> [t \in Threads |-> IdleEqual]]
SecureBuffers == 1 .. Len(sec.buffers)
SecureKeys == 1 .. Len(sec.keys)
SecureBuffer(bytes) == [buf |-> bytes, destroyed |-> FALSE, orig |-> bytes]
SecureKey(bytes) ==
    [enclave |-> bytes, size |-> Len(bytes), destroyed |-> FALSE, mu |-> 0, orig |-> bytes]

\* NewSecureBuffer
NewSecureBuffer(size) ==
    /\ Len(sec.buffers) < MaxSecure
    /\ IF size <= 0
       THEN sec' = sec /\ ret' = Ret("new_buffer", "size")
       ELSE /\ sec' = [sec EXCEPT !.buffers = Append(@, SecureBuffer(Zeros(size)))]
            /\ ret' = [Ret("new_buffer", "ok") EXCEPT !.id = <<Len(sec.buffers) + 1>>]
    /\ UNCHANGED <<lk, proc, allocated, storeVars, now, fb, calls, sessionVars, tripVars>>

\* NewSecureBufferFromBytes: the buffer takes the bytes and `data` is wiped.
NewSecureBufferFromBytes(data) ==
    /\ Len(sec.buffers) < MaxSecure
    /\ IF Len(data) = 0
       THEN sec' = sec /\ ret' = Ret("new_buffer_from_bytes", "empty")
       ELSE /\ sec' = [sec EXCEPT !.buffers = Append(@, SecureBuffer(data))]
            /\ ret' = [Ret("new_buffer_from_bytes", "ok") EXCEPT
                         !.id = <<Len(sec.buffers) + 1>>, !.slice = Shred(data)]
    /\ UNCHANGED <<lk, proc, allocated, storeVars, now, fb, calls, sessionVars, tripVars>>

\* SecureBuffer.Bytes
Bytes(h) ==
    /\ h \in SecureBuffers
    /\ ret' = IF sec.buffers[h].destroyed THEN [Ret("bytes", "destroyed") EXCEPT !.id = <<h>>]
              ELSE [Ret("bytes", "ok") EXCEPT !.id = <<h>>, !.val = sec.buffers[h].buf]
    /\ UNCHANGED <<lk, sec, proc, allocated, storeVars, now, fb, calls, sessionVars, tripVars>>

\* SecureBuffer.Size
SecureBufferSize(h) ==
    /\ h \in SecureBuffers
    /\ ret' = [Ret("buffer_size", "ok") EXCEPT
                 !.id = <<h>>,
                 !.n = IF sec.buffers[h].destroyed THEN 0 ELSE Len(sec.buffers[h].buf)]
    /\ UNCHANGED <<lk, sec, proc, allocated, storeVars, now, fb, calls, sessionVars, tripVars>>

\* What SecureBuffer.Copy leaves in the source's LockedBuffer: it hands
\* s.buf.Bytes(), the source's own memory, to NewSecureBufferFromBytes, which
\* wipes the slice it is given.
SourceAfterCopy(bytes) == Shred(bytes)

\* SecureBuffer.Copy
Copy(h) ==
    /\ h \in SecureBuffers
    /\ Len(sec.buffers) < MaxSecure
    /\ IF sec.buffers[h].destroyed
       THEN sec' = sec /\ ret' = [Ret("copy", "destroyed") EXCEPT !.id = <<h>>]
       ELSE /\ sec' = [sec EXCEPT
                         !.buffers = Append([@ EXCEPT ![h].buf = SourceAfterCopy(@)],
                                            SecureBuffer(sec.buffers[h].buf))]
            /\ ret' = [Ret("copy", "ok") EXCEPT
                         !.id = <<h>>, !.n = Len(sec.buffers) + 1,
                         !.val = sec.buffers[h].buf]
    /\ UNCHANGED <<lk, proc, allocated, storeVars, now, fb, calls, sessionVars, tripVars>>

\* SecureBuffer.Wipe
Wipe(h) ==
    /\ h \in SecureBuffers
    /\ IF sec.buffers[h].destroyed
       THEN sec' = sec /\ ret' = [Ret("wipe", "destroyed") EXCEPT !.id = <<h>>]
       ELSE /\ sec' = [sec EXCEPT !.buffers[h].buf = Shred(@)]
            /\ ret' = [Ret("wipe", "ok") EXCEPT !.id = <<h>>]
    /\ UNCHANGED <<lk, proc, allocated, storeVars, now, fb, calls, sessionVars, tripVars>>

\* SecureBuffer.Use with a callback that reads the bytes
Use(h) ==
    /\ h \in SecureBuffers
    /\ ret' = IF sec.buffers[h].destroyed THEN [Ret("use", "destroyed") EXCEPT !.id = <<h>>]
              ELSE [Ret("use", "ok") EXCEPT !.id = <<h>>, !.val = sec.buffers[h].buf]
    /\ UNCHANGED <<lk, sec, proc, allocated, storeVars, now, fb, calls, sessionVars, tripVars>>

\* SecureBuffer.MutableUse with a callback that copies data into the bytes
MutableUse(h, data) ==
    /\ h \in SecureBuffers
    /\ IF sec.buffers[h].destroyed
       THEN sec' = sec /\ ret' = [Ret("mutable_use", "destroyed") EXCEPT !.id = <<h>>]
       ELSE /\ sec' = [sec EXCEPT
                         !.buffers[h].buf =
                             [i \in 1 .. Len(@) |-> IF i <= Len(data) THEN data[i] ELSE @[i]]]
            /\ ret' = [Ret("mutable_use", "ok") EXCEPT !.id = <<h>>]
    /\ UNCHANGED <<lk, proc, allocated, storeVars, now, fb, calls, sessionVars, tripVars>>

\* SecureBuffer.Seal: the buffer becomes a SecureKey and is destroyed.
Seal(h) ==
    /\ h \in SecureBuffers
    /\ Len(sec.keys) < MaxSecure
    /\ IF sec.buffers[h].destroyed
       THEN sec' = sec /\ ret' = [Ret("seal", "destroyed") EXCEPT !.id = <<h>>]
       ELSE /\ sec' = [sec EXCEPT !.buffers[h].buf = <<>>, !.buffers[h].destroyed = TRUE,
                                  !.keys = Append(@, SecureKey(sec.buffers[h].buf))]
            /\ ret' = [Ret("seal", "ok") EXCEPT !.id = <<h>>, !.n = Len(sec.keys) + 1]
    /\ UNCHANGED <<lk, proc, allocated, storeVars, now, fb, calls, sessionVars, tripVars>>

\* SecureBuffer.Destroy
SecureBufferDestroy(h) ==
    /\ h \in SecureBuffers
    /\ sec' = IF sec.buffers[h].destroyed \/ sec.buffers[h].buf = <<>> THEN sec
              ELSE [sec EXCEPT !.buffers[h].buf = <<>>, !.buffers[h].destroyed = TRUE]
    /\ ret' = [Ret("destroy_buffer", "ok") EXCEPT !.id = <<h>>]
    /\ UNCHANGED <<lk, proc, allocated, storeVars, now, fb, calls, sessionVars, tripVars>>

\* NewSecureKey
NewSecureKey(keyData) ==
    /\ Len(sec.keys) < MaxSecure
    /\ IF Len(keyData) = 0
       THEN sec' = sec /\ ret' = Ret("new_key", "nil")
       ELSE IF Len(keyData) > MaxKeySize
       THEN sec' = sec /\ ret' = [Ret("new_key", "too_large") EXCEPT !.slice = keyData]
       ELSE /\ sec' = [sec EXCEPT !.keys = Append(@, SecureKey(keyData))]
            /\ ret' = [Ret("new_key", "ok") EXCEPT
                         !.id = <<Len(sec.keys) + 1>>, !.slice = Shred(keyData)]
    /\ UNCHANGED <<lk, proc, allocated, storeVars, now, fb, calls, sessionVars, tripVars>>

\* SecureKey.Use with a callback that reads the key; it needs k.mu.
KeyUse(k) ==
    /\ k \in SecureKeys
    /\ sec.keys[k].mu = 0
    /\ ret' = IF sec.keys[k].destroyed THEN [Ret("key_use", "destroyed") EXCEPT !.id = <<k>>]
              ELSE [Ret("key_use", "ok") EXCEPT !.id = <<k>>, !.val = sec.keys[k].enclave]
    /\ UNCHANGED <<lk, sec, proc, allocated, storeVars, now, fb, calls, sessionVars, tripVars>>

\* SecureKey.Size
KeySize(k) ==
    /\ k \in SecureKeys
    /\ sec.keys[k].mu = 0
    /\ ret' = [Ret("key_size", "ok") EXCEPT !.id = <<k>>, !.n = sec.keys[k].size]
    /\ UNCHANGED <<lk, sec, proc, allocated, storeVars, now, fb, calls, sessionVars, tripVars>>

\* SecureKey.Clone
Clone(k) ==
    /\ k \in SecureKeys
    /\ sec.keys[k].mu = 0
    /\ Len(sec.keys) < MaxSecure
    /\ IF sec.keys[k].destroyed
       THEN sec' = sec /\ ret' = [Ret("clone", "destroyed") EXCEPT !.id = <<k>>]
       ELSE /\ sec' = [sec EXCEPT !.keys = Append(@, SecureKey(sec.keys[k].enclave))]
            /\ ret' = [Ret("clone", "ok") EXCEPT !.id = <<k>>, !.n = Len(sec.keys) + 1]
    /\ UNCHANGED <<lk, proc, allocated, storeVars, now, fb, calls, sessionVars, tripVars>>

\* SecureKey.Destroy
KeyDestroy(k) ==
    /\ k \in SecureKeys
    /\ sec.keys[k].mu = 0
    /\ sec' = IF sec.keys[k].destroyed \/ sec.keys[k].enclave = <<>> THEN sec
              ELSE [sec EXCEPT !.keys[k].enclave = <<>>, !.keys[k].size = 0,
                               !.keys[k].destroyed = TRUE]
    /\ ret' = [Ret("destroy_key", "ok") EXCEPT !.id = <<k>>]
    /\ UNCHANGED <<lk, proc, allocated, storeVars, now, fb, calls, sessionVars, tripVars>>

\* SecureKey.Equal up to its first k.Use: the nil, identity, destroyed and
\* size checks, each of which takes and releases one key's mutex.
Equal(t, k, other) ==
    /\ k \in SecureKeys
    /\ other \in SecureKeys
    /\ sec.eq[t].pc = "idle"
    /\ sec.keys[k].mu = 0
    /\ sec.keys[other].mu = 0
    /\ IF k = other
       THEN sec' = sec /\ ret' = [Ret("equal", "ok") EXCEPT !.id = <<k, other>>, !.n = 1]
       ELSE IF sec.keys[k].destroyed \/ sec.keys[other].destroyed
       THEN sec' = sec /\ ret' = [Ret("equal", "destroyed") EXCEPT !.id = <<k, other>>]
       ELSE IF sec.keys[k].size # sec.keys[other].size
       THEN sec' = sec /\ ret' = [Ret("equal", "ok") EXCEPT !.id = <<k, other>>]
       ELSE /\ sec' = [sec EXCEPT !.eq[t] = [pc |-> "use", k |-> k, other |-> other]]
            /\ ret' = [Ret("equal_begin", "ok") EXCEPT !.id = <<k, other>>]
    /\ UNCHANGED <<lk, proc, allocated, storeVars, now, fb, calls, sessionVars, tripVars>>

\* Equal's k.Use: k.mu.Lock(), held while the callback runs.
EqualUse(t) ==
    LET e == sec.eq[t] IN
    /\ e.pc = "use"
    /\ sec.keys[e.k].mu = 0
    /\ IF sec.keys[e.k].destroyed
       THEN /\ sec' = [sec EXCEPT !.eq[t] = IdleEqual]
            /\ ret' = [Ret("equal", "destroyed") EXCEPT !.id = <<e.k, e.other>>]
       ELSE /\ sec' = [sec EXCEPT !.eq[t].pc = "other_use", !.keys[e.k].mu = t]
            /\ ret' = [Ret("equal_use", "ok") EXCEPT !.id = <<e.k, e.other>>]
    /\ UNCHANGED <<lk, proc, allocated, storeVars, now, fb, calls, sessionVars, tripVars>>

\* The callback's other.Use: other.mu.Lock(), the comparison, and both
\* deferred unlocks as the calls return.
EqualOtherUse(t) ==
    LET e == sec.eq[t] IN
    /\ e.pc = "other_use"
    /\ sec.keys[e.other].mu = 0
    /\ sec' = [sec EXCEPT !.eq[t] = IdleEqual, !.keys[e.k].mu = 0]
    /\ ret' = IF sec.keys[e.other].destroyed
              THEN [Ret("equal", "destroyed") EXCEPT !.id = <<e.k, e.other>>]
              ELSE [Ret("equal", "ok") EXCEPT
                      !.id = <<e.k, e.other>>,
                      !.n = IF ConstantTimeCompare(sec.keys[e.k].enclave,
                                                   sec.keys[e.other].enclave)
                            THEN 1 ELSE 0]
    /\ UNCHANGED <<lk, proc, allocated, storeVars, now, fb, calls, sessionVars, tripVars>>

\* --------------------------------------------- ObfuscatedBuffer, stepwise
\* sec.chunks holds ObfuscatedBuffers with their rotateLoop goroutines: done
\* is TRUE once the channel is closed, loop is the goroutine's position
\* ("select" at the select, "rotate" once it has taken a tick and is about to
\* call rotate(), "ended" after it returned); orig is history.
\* While sec.fortified is "live" the buffers are the obfuscatedChunks of one
\* FortifiedBuffer.
MaxChunks == 2
ObfuscatedChunks == 1 .. Len(sec.chunks)
ObfuscatedWithLoop(data, pad) ==
    LET ob == NewObfuscatedBufferWithInterval(data, pad) IN
    [data |-> ob.data, pad |-> ob.pad, size |-> ob.size, destroyed |-> FALSE,
     done |-> FALSE, loop |-> "select", orig |-> data]

\* NewObfuscatedBuffer; seed is -1 when crypto/rand fails on the pad.
NewObfuscatedBuffer(data, seed) ==
    /\ Len(sec.chunks) < MaxChunks
    /\ sec.fortified # "destroyed"
    /\ IF Len(data) = 0
       THEN sec' = sec /\ ret' = Ret("new_obfuscated", "empty")
       ELSE IF seed < 0
       THEN sec' = sec /\ ret' = [Ret("new_obfuscated", "random") EXCEPT !.slice = data]
       ELSE /\ sec' = [sec EXCEPT
                         !.chunks = Append(@, ObfuscatedWithLoop(data,
                                                                 RandomPad(seed, Len(data))))]
            /\ ret' = [Ret("new_obfuscated", "ok") EXCEPT
                         !.id = <<Len(sec.chunks) + 1>>, !.slice = Shred(data)]
    /\ UNCHANGED <<lk, proc, allocated, storeVars, now, fb, calls, sessionVars, tripVars>>

\* rotateLoop: the select takes `case <-ticker.C`.
RotateLoopTick(i) ==
    /\ i \in ObfuscatedChunks
    /\ sec.chunks[i].loop = "select"
    /\ sec' = [sec EXCEPT !.chunks[i].loop = "rotate"]
    /\ ret' = [Ret("tick", "ok") EXCEPT !.id = <<i>>]
    /\ UNCHANGED <<lk, proc, allocated, storeVars, now, fb, calls, sessionVars, tripVars>>

\* rotateLoop: ob.rotate() under ob.mu, then back to the select.
RotateLoopRotate(i, seed) ==
    LET ob == sec.chunks[i]
        newPad == IF seed < 0 THEN <<>> ELSE RandomPad(seed, ob.size)
    IN
    /\ i \in ObfuscatedChunks
    /\ ob.loop = "rotate"
    /\ sec' = [sec EXCEPT !.chunks[i] = [rotate(ob, newPad) EXCEPT !.loop = "select"]]
    /\ ret' = [Ret("rotate_chunk", IF ob.destroyed THEN "destroyed"
                                   ELSE IF seed < 0 THEN "random" ELSE "ok")
                 EXCEPT !.id = <<i>>]
    /\ UNCHANGED <<lk, proc, allocated, storeVars, now, fb, calls, sessionVars, tripVars>>

\* rotateLoop: the select takes `case <-ob.done` and the goroutine returns.
RotateLoopDone(i) ==
    /\ i \in ObfuscatedChunks
    /\ sec.chunks[i].loop = "select"
    /\ sec.chunks[i].done
    /\ sec' = [sec EXCEPT !.chunks[i].loop = "ended"]
    /\ ret' = [Ret("rotate_loop", "done") EXCEPT !.id = <<i>>]
    /\ UNCHANGED <<lk, proc, allocated, storeVars, now, fb, calls, sessionVars, tripVars>>

\* A Destroy that leaves the done channel open.
ObfuscatedDestroyedOpen(ob) ==
    IF ob.destroyed THEN ob
    ELSE [ob EXCEPT !.data = <<>>, !.pad = <<>>, !.size = 0, !.destroyed = TRUE]
\* ObfuscatedBuffer.Destroy, on the buffer
ObfuscatedDestroyed(ob) ==
    IF ob.destroyed THEN ob
    ELSE [ob EXCEPT !.done = TRUE, !.data = <<>>, !.pad = <<>>, !.size = 0,
                    !.destroyed = TRUE]

\* What Destroy shreds: data and pad, where they are not nil.
ObfuscatedShreds(ob) ==
    IF ob.destroyed THEN {}
    ELSE {[what |-> "data", bytes |-> Shred(ob.data)], [what |-> "pad", bytes |-> Shred(ob.pad)]}

\* ObfuscatedBuffer.Destroy
ObfuscatedDestroy(i) ==
    /\ i \in ObfuscatedChunks
    /\ sec' = [sec EXCEPT !.chunks[i] = ObfuscatedDestroyed(@)]
    /\ ret' = [Ret("destroy_obfuscated", "ok") EXCEPT
                 !.id = <<i>>, !.log = ObfuscatedShreds(sec.chunks[i])]
    /\ UNCHANGED <<lk, proc, allocated, storeVars, now, fb, calls, sessionVars, tripVars>>

\* ObfuscatedBuffer.Read
ObfuscatedBufferRead(i) ==
    /\ i \in ObfuscatedChunks
    /\ ret' = IF sec.chunks[i].destroyed
              THEN [Ret("read_obfuscated", "destroyed") EXCEPT !.id = <<i>>]
              ELSE [Ret("read_obfuscated", "ok") EXCEPT
                      !.id = <<i>>, !.val = ObfuscatedRead(sec.chunks[i])]
    /\ UNCHANGED <<lk, sec, proc, allocated, storeVars, now, fb, calls, sessionVars, tripVars>>

\* ObfuscatedBuffer.Size
ObfuscatedBufferSize(i) ==
    /\ i \in ObfuscatedChunks
    /\ ret' = [Ret("size_obfuscated", "ok") EXCEPT
                 !.id = <<i>>,
                 !.n = IF sec.chunks[i].destroyed THEN 0 ELSE sec.chunks[i].size]
    /\ UNCHANGED <<lk, sec, proc, allocated, storeVars, now, fb, calls, sessionVars, tripVars>>

\* FortifiedBuffer.Destroy over its obfuscatedChunks: each chunk's Destroy in
\* turn, under fb.mu. The chunks share nothing, so the rotations that run
\* between two of these calls are the ones that run before the first.
FortifiedDestroyChunks ==
    /\ sec.chunks # <<>>
    /\ sec' = IF sec.fortified = "destroyed" THEN sec
              ELSE [sec EXCEPT
                      !.chunks = [i \in ObfuscatedChunks |-> ObfuscatedDestroyed(sec.chunks[i])],
                      !.fortified = "destroyed"]
    /\ ret' = [Ret("destroy_chunks", "ok") EXCEPT
                 !.log = IF sec.fortified = "destroyed" THEN {}
                         ELSE UNION {ObfuscatedShreds(sec.chunks[i]) : i \in ObfuscatedChunks}]
    /\ UNCHANGED <<lk, proc, allocated, storeVars, now, fb, calls, sessionVars, tripVars>>

\* ------------------------------------------------------------ SessionManager
\* A Session: token, locked, keyHash and salt (<<>> for nil, else <<bytes>>).
\* proven is history: a VerifyKeyHash has succeeded since the last Lock.
SessionTokenBytes == 32
RandomTokens == {[i \in 1 .. SessionTokenBytes |-> 17], [i \in 1 .. SessionTokenBytes |-> 34]}
\* GenerateSessionTokenString: hex of SessionTokenBytes random bytes.
GenerateSessionTokenString(random) == HexEncodeToString(random)
NewSession(random) ==
    [token |-> GenerateSessionTokenString(random), locked |-> FALSE,
     keyHash |-> <<>>, salt |-> <<>>, lockedAt |-> <<>>, proven |-> FALSE,
     shared |-> {}]
KeyHashes == {[i \in 1 .. 32 |-> 1], [i \in 1 .. 32 |-> 2]}
Salts == {[i \in 1 .. 16 |-> 7]}
Clients == {1, 2}
\* What a caller may hand to VerifyKeyHash: the key hashes, one of them cut
\* short by a byte, and nothing.
Candidates == KeyHashes \cup {[i \in 1 .. 31 |-> 1], <<>>}

\* SessionManager.IsLocked
IsLocked(sess) == sess # <<>> /\ sess[1].locked
\* SessionManager.GetToken
GetToken(sess) == IF sess = <<>> THEN <<>> ELSE sess[1].token

\* A slice that shares its backing array with the caller's slice `name`.
SameArray(name) == {name}
\* `make([]byte, len(x)); copy(.., x)`: a fresh array, shared with no slice
\* outside the session. The session's `shared` field names the outside slices
\* whose array is the stored salt's.
CopyOf(name) == {}

\* A Lock that takes the new credentials even when the session is locked.
SmLockAgain(sess, keyHash, salt, random) ==
    IF sess = <<>> /\ random = <<>> THEN [res |-> "random", session |-> sess]
    ELSE LET cur == IF sess = <<>> THEN NewSession(random) ELSE sess[1] IN
         [res |-> IF cur.locked THEN "locked" ELSE "ok",
          session |-> <<[cur EXCEPT !.locked = TRUE, !.keyHash = <<keyHash>>,
                                    !.salt = <<salt>>, !.lockedAt = <<now>>,
                                    !.proven = FALSE, !.shared = CopyOf("salt")]>>]

\* SessionManager.Lock: the result and the session it leaves; lockedAt is
\* <<>> for the zero time.
SmLock(sess, keyHash, salt, random) ==
    IF sess = <<>> /\ random = <<>> THEN [res |-> "random", session |-> sess]
    ELSE LET cur == IF sess = <<>> THEN NewSession(random) ELSE sess[1] IN
         IF cur.locked THEN [res |-> "locked", session |-> <<cur>>]
         ELSE [res |-> "ok",
               session |-> <<[cur EXCEPT !.locked = TRUE, !.keyHash = <<keyHash>>,
                                         !.salt = <<salt>>, !.lockedAt = <<now>>,
                                         !.proven = FALSE,
                                         !.shared = CopyOf("salt")]>>]

\* SessionManager.VerifyKeyHash
SmVerifyKeyHash(sess, keyHash) ==
    IF sess = <<>> THEN "not_locked"
    ELSE IF ~sess[1].locked THEN "not_locked"
    ELSE IF sess[1].keyHash = <<>> THEN "nil_key_hash"
    ELSE IF ~ConstantTimeCompare(sess[1].keyHash[1], keyHash) THEN "invalid_password"
    ELSE "ok"

\* What Unlock and ForceUnlock leave of a locked session.
\* An unlock that clears the flag and keeps the key hash and the salt.
UnlockedFlagOnly(cur) == [cur EXCEPT !.locked = FALSE]
Unlocked(cur) ==
    [cur EXCEPT !.locked = FALSE, !.keyHash = <<>>, !.salt = <<>>, !.lockedAt = <<>>,
                !.shared = {}]
\* What secure.Shred leaves in the arrays Unlock hands it: the key hash's,
\* then the salt's.
ShreddedArrays(cur) ==
    (IF cur.keyHash = <<>> THEN <<>> ELSE Shred(cur.keyHash[1]))
        \o (IF cur.salt = <<>> THEN <<>> ELSE Shred(cur.salt[1]))

\* SessionManager.CreateSession
CreateSession(random) ==
    /\ IF random = <<>>
       THEN session' = session /\ ret' = Ret("create_session", "random")
       ELSE /\ session' = <<NewSession(random)>>
            /\ ret' = [Ret("create_session", "ok") EXCEPT
                         !.id = GenerateSessionTokenString(random)]
    /\ UNCHANGED <<lk, sec, proc, allocated, storeVars, now, fb, calls, verified, tripVars>>

\* SessionManager.Lock
SessionLock(keyHash, salt, random) ==
    LET r == SmLock(session, keyHash, salt, random) IN
    /\ session' = r.session
    /\ ret' = [Ret("lock", r.res) EXCEPT !.val = keyHash, !.slice = salt]
    /\ UNCHANGED <<lk, sec, proc, allocated, storeVars, now, fb, calls, verified, tripVars>>

\* SessionManager.VerifyKeyHash called by client c, which remembers the answer.
VerifyKeyHash(c, keyHash) ==
    LET res == SmVerifyKeyHash(session, keyHash) IN
    /\ session' = IF res = "ok" THEN <<[session[1] EXCEPT !.proven = TRUE]>> ELSE session
    /\ verified' = IF res = "ok" THEN verified \cup {c} ELSE verified \ {c}
    /\ ret' = [Ret("verify_key_hash", res) EXCEPT !.val = keyHash, !.n = c]
    /\ UNCHANGED <<lk, sec, proc, allocated, storeVars, now, fb, calls, tripVars>>

\* SessionManager.Unlock, called as its contract asks: by a client whose
\* VerifyKeyHash succeeded.
SessionUnlock(c) ==
    /\ c \in verified
    /\ verified' = verified \ {c}
    /\ IF ~IsLocked(session)
       THEN session' = session /\ ret' = [Ret("unlock", "not_locked") EXCEPT !.n = c]
       ELSE /\ session' = <<Unlocked(session[1])>>
            /\ ret' = [Ret("unlock", "ok") EXCEPT !.n = c,
                                                  !.val = ShreddedArrays(session[1])]
    /\ UNCHANGED <<lk, sec, proc, allocated, storeVars, now, fb, calls, tripVars>>

\* SessionManager.ForceUnlock with the callback the lock handler passes:
\* files.ShredAll, then clipboard.ShredAll, then the session is cleared.
SessionForceUnlock ==
    IF ~IsLocked(session)
    THEN /\ ret' = Ret("force_unlock", "not_locked")
         /\ UNCHANGED <<lk, sec, proc, allocated, storeVars, now, fb, calls, sessionVars, tripVars>>
    ELSE LET m == ShredSlot(ShredSlot(ShredFiles(Mem(allocated, bufs, {}), files), text), image) IN
         /\ files' = {}
         /\ text' = <<>>
         /\ image' = <<>>
         /\ allocated' = m.allocated
         /\ bufs' = m.bufs
         /\ session' = <<Unlocked(session[1])>>
         /\ ret' = [Ret("force_unlock", "ok") EXCEPT !.log = m.log]
         /\ UNCHANGED <<lk, sec, proc, shredQueue, thr, now, fb, calls, verified, tripVars>>

\* A ForceUnlock that only refuses when there is no session at all.
ForceUnlockRefusedNil(sess) == sess = <<>>
\* The two early returns of ForceUnlock: no session, or not locked.
ForceUnlockRefused(sess) == ~IsLocked(sess)
\* sm.mu is free: no thread is inside ForceUnlock.
SmFree == \A t \in Threads : thr[t].pc \notin {"force_unlock", "force_clear"}

\* SessionManager.ForceUnlock one statement at a time: both locks and the two
\* checks.  n counts the invocations of the callback.
ForceUnlockBegin(t) ==
    /\ thr[t].pc = "idle" /\ SmFree
    /\ IF ForceUnlockRefused(session)
       THEN /\ ret' = Ret("force_unlock", "not_locked")
            /\ thr' = thr
       ELSE /\ ret' = Ret("force_unlock", "entered")
            /\ thr' = [thr EXCEPT ![t] = [IdleThr EXCEPT !.pc = "force_unlock"]]
    /\ UNCHANGED <<lk, sec, proc, allocated, files, text, image, shredQueue, bufs, now, fb, calls,
                   sessionVars, tripVars>>

\* `shredCallback()`: the lock handler's files.ShredAll and clipboard.ShredAll.
ForceUnlockCallback(t) ==
    /\ thr[t].pc = "force_unlock"
    /\ LET m == ShredSlot(ShredSlot(ShredFiles(Mem(allocated, bufs, {}), files), text), image) IN
       /\ files' = {}
       /\ text' = <<>>
       /\ image' = <<>>
       /\ allocated' = m.allocated
       /\ bufs' = m.bufs
       /\ ret' = [Ret("shred_cb", "ok") EXCEPT !.log = m.log]
    /\ thr' = [thr EXCEPT ![t].pc = "force_clear", ![t].n = @ + 1]
    /\ UNCHANGED <<lk, sec, proc, shredQueue, now, fb, calls, sessionVars, tripVars>>

\* The rest: keyHash and salt shredded and set to nil, locked = false, the
\* deferred unlocks, return nil.
ForceUnlockClear(t) ==
    /\ thr[t].pc = "force_clear"
    /\ session' = <<Unlocked(session[1])>>
    /\ ret' = [Ret("force_unlock", "ok") EXCEPT !.n = thr[t].n,
                                                !.val = ShreddedArrays(session[1])]
    /\ thr' = [thr EXCEPT ![t] = IdleThr]
    /\ UNCHANGED <<lk, sec, proc, allocated, files, text, image, shredQueue, bufs, now, fb, calls,
                   verified, tripVars>>

\* FilesHandler.UploadEncrypted up to its store call: `h.session.IsLocked()`
\* takes and releases the manager's and the session's read locks, then the
\* body is decoded and validated.
UploadEncryptedCheck(t, f) ==
    /\ thr[t].pc = "idle" /\ SmFree
    /\ IF ~IsLocked(session)
       THEN /\ ret' = Ret("upload_encrypted", "not_locked")
            /\ thr' = thr
       ELSE IF ~B64Ok(f.b64)
       THEN /\ ret' = Ret("upload_encrypted", "bad_base64")
            /\ thr' = thr
       ELSE /\ ret' = [Ret("upload_encrypted", "checked") EXCEPT !.id = f.id]
            /\ thr' = [thr EXCEPT ![t] = [IdleThr EXCEPT !.pc = "upload_encrypted",
                                                          !.file = <<f>>]]
    /\ UNCHANGED <<lk, sec, proc, allocated, files, text, image, shredQueue, bufs, now, fb, calls,
                   sessionVars, tripVars>>

\* `h.files.AddEncryptedFile(encryptedFile)` and the response.
UploadEncryptedAdd(t) ==
    /\ thr[t].pc = "upload_encrypted"
    /\ files' = PutFile(files, EncryptedFile(thr[t].file[1], "add_encrypted_file"))
    /\ ret' = [Ret("upload_encrypted", "ok") EXCEPT !.id = thr[t].file[1].id,
                                                    !.n = thr[t].file[1].size]
    /\ thr' = [thr EXCEPT ![t] = IdleThr]
    /\ UNCHANGED <<lk, sec, proc, allocated, text, image, shredQueue, bufs, now, fb, calls,
                   sessionVars, tripVars>>

\* ClipboardHandler.SetText with encrypted_b64, up to its store call.
SetTextCheck(t, encryptedB64) ==
    /\ thr[t].pc = "idle" /\ SmFree
    /\ IF ~IsLocked(session)
       THEN /\ ret' = Ret("clipboard_set_text", "no_content")
            /\ thr' = thr
       ELSE IF ~B64Ok(encryptedB64)
       THEN /\ ret' = Ret("clipboard_set_text", "bad_base64")
            /\ thr' = thr
       ELSE /\ ret' = Ret("clipboard_set_text", "checked")
            /\ thr' = [thr EXCEPT ![t] = [IdleThr EXCEPT
                                             !.pc = "set_encrypted_text",
                                             !.content = B64DecodeString(encryptedB64)]]
    /\ UNCHANGED <<lk, sec, proc, allocated, files, text, image, shredQueue, bufs, now, fb, calls,
                   sessionVars, tripVars>>

\* `h.clipboard.SetEncryptedText(encrypted)` and the response.
SetTextStore(t) ==
    LET encrypted == thr[t].content
        m == ShredSlot(Mem(allocated, bufs, {}), text)
    IN
    /\ thr[t].pc = "set_encrypted_text"
    /\ IF Len(encrypted) = 0
       THEN UNCHANGED <<allocated, text, bufs>> /\ ret' = Ret("clipboard_set_text", "ok")
       ELSE /\ text' = <<NewEntry(<<>>, 0, <<encrypted>>, Len(encrypted), now,
                                  ClipboardExpiry, 0, "set_encrypted_text")>>
            /\ allocated' = m.allocated
            /\ bufs' = m.bufs
            /\ ret' = [Ret("clipboard_set_text", "ok") EXCEPT
                         !.n = Len(encrypted), !.log = m.log]
    /\ thr' = [thr EXCEPT ![t] = IdleThr]
    /\ UNCHANGED <<lk, sec, proc, files, image, shredQueue, now, fb, calls, sessionVars, tripVars>>

\* SessionManager.Destroy
SessionDestroy ==
    /\ session' = <<>>
    /\ ret' = Ret("destroy", IF session = <<>> THEN "none" ELSE "ok")
    /\ UNCHANGED <<lk, sec, proc, allocated, storeVars, now, fb, calls, verified, tripVars>>

\* SessionManager.GetSalt
GetSalt ==
    /\ IF ~IsLocked(session) \/ session[1].salt = <<>>
       THEN session' = session /\ ret' = Ret("get_salt", "nil")
       ELSE /\ session' = <<[session[1] EXCEPT !.shared = @ \cup CopyOf("result")]>>
            /\ ret' = [Ret("get_salt", "ok") EXCEPT !.val = session[1].salt[1]]
    /\ UNCHANGED <<lk, sec, proc, allocated, storeVars, now, fb, calls, verified, tripVars>>

\* A caller of Lock or GetSalt overwrites, with zeros, the slice it holds:
\* the salt it passed to Lock, or the result GetSalt gave it. The stored salt
\* changes with it exactly when both are the same array.
CallerWrites(name) ==
    /\ IsLocked(session)
    /\ session' = IF name \in session[1].shared /\ session[1].salt # <<>>
                  THEN <<[session[1] EXCEPT !.salt = <<Shred(@[1])>>]>>
                  ELSE session
    /\ ret' = [Ret("caller_writes", "ok") EXCEPT !.id = name]
    /\ UNCHANGED <<lk, sec, proc, allocated, storeVars, now, fb, calls, verified, tripVars>>

\* SessionManager.GetToken
SessionGetToken ==
    /\ ret' = [Ret("get_token", "ok") EXCEPT !.id = GetToken(session)]
    /\ UNCHANGED <<lk, sec, proc, allocated, storeVars, now, fb, calls, sessionVars, tripVars>>

\* ------------------------------------- SessionManager, one mutex step at a time
\* sync.RWMutex: the writer holding it (0 for none) and the readers holding it.
FreeMu == [w |-> 0, r |-> {}]
\* A read lock that never waits.
CanRLockAlways(mu) == TRUE
CanLock(mu) == mu.w = 0 /\ mu.r = {}
CanRLock(mu) == mu.w = 0
Release(mu, t) == [w |-> IF mu.w = t THEN 0 ELSE mu.w, r |-> mu.r \ {t}]

SessionThreads == {1, 2, 3}
Writers == {"lock", "unlock", "force_unlock", "destroy"}
Readers == {"is_locked", "get_salt", "status", "verify_key_hash"}
SaltA == [i \in 1 .. 16 |-> 7]
SaltB == [i \in 1 .. 16 |-> 9]

\* A call in flight: its arguments, where it stands, what it will return.
\* expect (the session when the call began, if no transition was or has
\* since been in flight) and sawLocked are history.
IdleCall == [op |-> "", pc |-> "idle", keyHash |-> <<>>, salt |-> <<>>, res |-> "",
             val |-> <<>>, expect |-> <<>>, sawLocked |-> FALSE]
InFlight(t) == calls.op[t].pc # "idle"

\* A goroutine calls a method of the manager.
Call(t, op, keyHash, salt) ==
    LET quiet == \A u \in SessionThreads : InFlight(u) => calls.op[u].op \notin Writers
        mine == [IdleCall EXCEPT !.op = op, !.pc = "sm", !.keyHash = keyHash, !.salt = salt,
                                 !.expect = IF quiet /\ op \in Readers THEN <<session>>
                                            ELSE <<>>]
    IN
    /\ ~InFlight(t)
    /\ calls' = [calls EXCEPT !.op =
            [u \in SessionThreads |->
                IF u = t THEN mine
                ELSE IF op \in Writers THEN [calls.op[u] EXCEPT !.expect = <<>>]
                ELSE calls.op[u]]]
    /\ UNCHANGED <<lk, sec, proc, allocated, storeVars, now, fb, sessionVars, tripVars, ret>>

\* sm.mu.Lock() / sm.mu.RLock()
AcquireManager(t) ==
    /\ calls.op[t].pc = "sm"
    /\ IF calls.op[t].op \in Writers
       THEN /\ CanLock(calls.mu)
            /\ calls' = [calls EXCEPT !.mu.w = t, !.op[t].pc = "in"]
       ELSE /\ CanRLock(calls.mu)
            /\ calls' = [calls EXCEPT !.mu.r = @ \cup {t}, !.op[t].pc = "in"]
    /\ UNCHANGED <<lk, sec, proc, allocated, storeVars, now, fb, sessionVars, tripVars, ret>>

\* What each method answers when sm.session is nil.
NilAnswer(op) ==
    CASE op \in {"unlock", "force_unlock", "verify_key_hash"} -> "not_locked"
      [] op = "is_locked" -> "false"
      [] op \in {"status", "destroy"} -> "none"
      [] OTHER -> "nil"

\* `if sm.session == nil`: Lock creates the session, the others return;
\* GetSalt also reads locked here, before it takes session.mu.
Enter(t, random) ==
    LET c == calls.op[t]
        Done(res) == calls' = [calls EXCEPT !.op[t].res = res, !.op[t].pc = "ret"]
    IN
    /\ c.pc = "in"
    /\ IF c.op = "lock" /\ session = <<>>
       THEN IF random = <<>> THEN Done("random") /\ session' = session
            ELSE /\ session' = <<NewSession(random)>>
                 /\ calls' = [calls EXCEPT !.op[t].pc = "smu"]
       ELSE /\ session' = session
            /\ IF c.op # "lock" /\ session = <<>> THEN Done(NilAnswer(c.op))
               ELSE IF c.op = "get_salt" /\ ~session[1].locked THEN Done("nil")
               ELSE calls' = [calls EXCEPT !.op[t].pc = "smu",
                                           !.op[t].sawLocked = (c.op = "get_salt")]
    /\ UNCHANGED <<lk, sec, proc, allocated, storeVars, now, fb, verified, tripVars, ret>>

\* sm.session.mu.Lock() / RLock()
AcquireSession(t) ==
    /\ calls.op[t].pc = "smu"
    /\ IF calls.op[t].op \in Writers
       THEN /\ CanLock(calls.smu)
            /\ calls' = [calls EXCEPT !.smu.w = t, !.op[t].pc = "body"]
       ELSE /\ CanRLock(calls.smu)
            /\ calls' = [calls EXCEPT !.smu.r = @ \cup {t}, !.op[t].pc = "body"]
    /\ UNCHANGED <<lk, sec, proc, allocated, storeVars, now, fb, sessionVars, tripVars, ret>>

\* The first statement after session.mu is held: the check of locked and,
\* for the transitions, the first field written. ForceUnlock runs its shred
\* callback here. A nil session cannot be met while sm.mu is held; if it
\* were, the dereference would panic.
Body(t) ==
    LET c == calls.op[t]
        Done(res, val) == calls' = [calls EXCEPT !.op[t].res = res, !.op[t].val = val,
                                                 !.op[t].pc = "ret",
                                                 !.op[t].sawLocked = @ \/ session[1].locked]
        Go(pc) == calls' = [calls EXCEPT !.op[t].pc = pc]
        m == ShredSlot(ShredSlot(ShredFiles(Mem(allocated, bufs, {}), files), text), image)
        Keep == UNCHANGED <<lk, sec, proc, allocated, files, text, image, bufs>>
    IN
    /\ c.pc = "body"
    /\ IF session = <<>>
       THEN /\ calls' = [calls EXCEPT !.op[t].res = "panic", !.op[t].pc = "ret"]
            /\ session' = session /\ Keep
       ELSE CASE c.op = "lock" ->
                 /\ Keep
                 /\ IF session[1].locked THEN Done("locked", <<>>) /\ session' = session
                    ELSE Go("w_salt") /\ session' = <<[session[1] EXCEPT !.keyHash = <<c.keyHash>>]>>
              [] c.op = "unlock" ->
                 /\ Keep
                 /\ IF ~session[1].locked THEN Done("not_locked", <<>>) /\ session' = session
                    ELSE Go("w_salt") /\ session' = <<[session[1] EXCEPT !.keyHash = <<>>]>>
              [] c.op = "force_unlock" ->
                 IF ~session[1].locked
                 THEN Done("not_locked", <<>>) /\ session' = session /\ Keep
                 ELSE /\ Go("w_salt")
                      /\ session' = <<[session[1] EXCEPT !.keyHash = <<>>]>>
                      /\ files' = {} /\ text' = <<>> /\ image' = <<>>
                      /\ allocated' = m.allocated /\ bufs' = m.bufs
              [] c.op = "destroy" ->
                 Keep /\ Done("ok", <<>>) /\ session' = <<>>
              [] c.op = "is_locked" ->
                 /\ Keep /\ session' = session
                 /\ Done(IF session[1].locked THEN "true" ELSE "false", <<>>)
              [] c.op = "status" ->
                 /\ Keep /\ session' = session
                 /\ Done(IF session[1].locked THEN "locked" ELSE "unlocked", <<>>)
              [] c.op = "get_salt" ->
                 /\ Keep /\ session' = session
                 /\ calls' = [calls EXCEPT
                        !.op[t].res = IF session[1].salt = <<>> THEN "nil" ELSE "ok",
                        !.op[t].val = session[1].salt, !.op[t].pc = "ret"]
              [] OTHER ->
                 /\ Keep /\ session' = session
                 /\ Done(SmVerifyKeyHash(session, c.keyHash), <<>>)
    /\ UNCHANGED <<lk, sec, proc, shredQueue, thr, now, fb, verified, tripVars, ret>>

\* Lock: `sm.session.salt = ...`; Unlock / ForceUnlock: `sm.session.salt = nil`.
WriteSalt(t) ==
    LET c == calls.op[t] IN
    /\ c.pc = "w_salt"
    /\ session' = <<[session[1] EXCEPT
                        !.salt = IF c.op = "lock" THEN <<c.salt>> ELSE <<>>,
                        !.shared = IF c.op = "lock" THEN CopyOf("salt") ELSE {}]>>
    /\ calls' = [calls EXCEPT !.op[t].pc = "w_locked"]
    /\ UNCHANGED <<lk, sec, proc, allocated, storeVars, now, fb, verified, tripVars, ret>>

\* `sm.session.locked = true` / `= false`
WriteLocked(t) ==
    LET c == calls.op[t] IN
    /\ c.pc = "w_locked"
    /\ session' = <<[session[1] EXCEPT !.locked = (c.op = "lock"),
                                       !.lockedAt = IF c.op = "lock" THEN <<now>> ELSE <<>>,
                                       !.proven = IF c.op = "lock" THEN FALSE ELSE @]>>
    /\ calls' = [calls EXCEPT !.op[t].res = "ok", !.op[t].pc = "ret"]
    /\ UNCHANGED <<lk, sec, proc, allocated, storeVars, now, fb, verified, tripVars, ret>>

\* The deferred Unlock / RUnlock calls run and the method returns.
Return(t) ==
    LET c == calls.op[t] IN
    /\ c.pc = "ret"
    /\ calls' = [calls EXCEPT !.mu = Release(@, t), !.smu = Release(@, t),
                              !.op[t] = IdleCall]
    /\ ret' = [Ret(c.op, c.res) EXCEPT !.val = c.val,
                                       !.slice = IF c.expect = <<>> THEN <<>> ELSE <<"quiet">>]
    /\ UNCHANGED <<lk, sec, proc, allocated, storeVars, now, fb, sessionVars, tripVars>>

\* ------------------------------------------------------------ HTTP handlers
\* validate.SessionToken: SessionTokenLength hex characters, lowercased;
\* SessionExtractor treats anything else as no token.
SessionTokenLength == 64
SessionToken(token) ==
    IF Len(token) = SessionTokenLength /\ \A i \in 1 .. Len(token) : token[i] \in HexPattern
    THEN [i \in 1 .. Len(token) |-> ToLower(token[i])]
    ELSE <<>>

\* middleware.RequireSessionWhenLocked: does the request reach the handler?
RequireSessionWhenLocked(token) ==
    \/ ~IsLocked(session)
    \/ SessionToken(token) # <<>> /\ SessionToken(token) = GetToken(session)

\* The 401 of RequireSessionWhenLocked.
LockedResponse(op) ==
    /\ ret' = Ret(op, "unauthorized")
    /\ UNCHANGED <<lk, sec, proc, allocated, storeVars, now, fb, calls, sessionVars, tripVars>>

\* strings.TrimSpace over bytes.
IsSpace(b) == b \in {9, 10, 11, 12, 13, 32}
RECURSIVE TrimLeft(_)
TrimLeft(str) ==
    IF str # <<>> /\ IsSpace(Head(str)) THEN TrimLeft(Tail(str)) ELSE str
RECURSIVE TrimRight(_)
TrimRight(str) ==
    IF str # <<>> /\ IsSpace(str[Len(str)])
    THEN TrimRight(SubSeq(str, 1, Len(str) - 1)) ELSE str
TrimSpace(str) == TrimRight(TrimLeft(str))

\* What clients send.
Tokens == {<<>>} \cup {GenerateSessionTokenString(r) : r \in RandomTokens}
KeyHashWires == {B64EncodeToString(k) : k \in KeyHashes} \cup {<<>>, B64EncodeToString(<<1>>)}
SaltWires == {B64EncodeToString(sl) : sl \in Salts}
LockRequests ==
    [keyHashB64 : KeyHashWires, saltB64 : SaltWires, clearExisting : BOOLEAN,
     encryptedClipboardB64 : {<<>>, B64EncodeToString(Cipher)},
     encryptedImageB64 : {<<>>, B64EncodeToString(Cipher)},
     encryptedFiles : EncryptedFileLists]

\* A handler that takes a key hash of any length.
KeyHashLengthAny(keyHash) == TRUE
\* `len(keyHash) != 32` (SHA-256) and `len(salt) < 16` of LockHandler.Lock.
KeyHashLengthOk(keyHash) == Len(keyHash) = 32
SaltLengthOk(salt) == Len(salt) >= 16

\* LockHandler.Lock: validation, then the stores, then SessionManager.Lock.
\* The encrypted slot a lock request leaves after clipboard.ShredAll.
LockedSlot(k, wire) ==
    IF wire # <<>> /\ B64Ok(wire) /\ Len(B64DecodeString(wire)) # 0
    THEN <<NewEntry(<<>>, 0, <<B64DecodeString(wire)>>, Len(B64DecodeString(wire)), now,
                    ClipboardExpiry, 0, "set_encrypted_" \o k)>>
    ELSE <<>>
LockHandlerLock(req, random) ==
    LET keyHash == IF B64Ok(req.keyHashB64) THEN B64DecodeString(req.keyHashB64) ELSE <<>>
        salt == IF B64Ok(req.saltB64) THEN B64DecodeString(req.saltB64) ELSE <<>>
        Bad(res) == /\ ret' = [Ret("handle_lock", res) EXCEPT !.val = keyHash, !.slice = salt]
                    /\ UNCHANGED <<lk, sec, proc, allocated, storeVars, now, fb, calls, sessionVars, tripVars>>
        m0 == Mem(allocated, bufs, {})
        m == IF req.clearExisting
             THEN ShredSlot(ShredSlot(ShredFiles(m0, files), text), image)
             ELSE ShredFiles(ShredSlot(ShredSlot(m0, text), image), files)
        r == SmLock(session, keyHash, salt, random)
    IN
    IF req.keyHashB64 = <<>> \/ req.saltB64 = <<>> THEN Bad("missing")
    ELSE IF ~B64Ok(req.keyHashB64) \/ ~KeyHashLengthOk(keyHash) THEN Bad("invalid_key_hash")
    ELSE IF ~B64Ok(req.saltB64) \/ ~SaltLengthOk(salt) THEN Bad("invalid_salt")
    ELSE /\ text' = IF req.clearExisting THEN <<>>
                    ELSE LockedSlot("text", req.encryptedClipboardB64)
         /\ image' = IF req.clearExisting THEN <<>>
                     ELSE LockedSlot("image", req.encryptedImageB64)
         /\ files' = IF req.clearExisting THEN {}
                     ELSE PutEncrypted({}, req.encryptedFiles)
         /\ allocated' = m.allocated
         /\ bufs' = m.bufs
         /\ session' = r.session
         /\ ret' = [Ret("handle_lock", r.res) EXCEPT
                      !.id = IF r.res = "ok" THEN GetToken(r.session) ELSE <<>>,
                      !.val = keyHash, !.slice = salt, !.log = m.log]
         /\ UNCHANGED <<lk, sec, proc, shredQueue, thr, now, fb, calls, verified, tripVars>>

\* LockHandler.Unlock: verifies and hands back the token and the encrypted
\* blobs; the session stays locked.
LockHandlerUnlock(keyHashB64) ==
    LET keyHash == B64DecodeString(keyHashB64)
        res == IF keyHashB64 = <<>> THEN "missing"
               ELSE IF ~B64Ok(keyHashB64) \/ Len(keyHash) # 32 THEN "invalid_key_hash"
               ELSE SmVerifyKeyHash(session, keyHash)
        Blob(k) == IF GetEncryptedClip(k) = <<>> THEN <<>>
                   ELSE B64EncodeToString(GetEncryptedClip(k))
    IN
    /\ ret' = IF res # "ok" THEN Ret("handle_unlock", res)
              ELSE [Ret("handle_unlock", "ok") EXCEPT
                      !.id = GetToken(session),
                      !.val = <<Blob("text"), Blob("image")>>,
                      !.slice = GetEncryptedFiles]
    /\ session' = IF res = "ok" THEN <<[session[1] EXCEPT !.proven = TRUE]>> ELSE session
    /\ UNCHANGED <<lk, sec, proc, allocated, storeVars, now, fb, calls, verified, tripVars>>

\* FilesHandler.Upload behind RequireSessionWhenLocked, up to the buffer
\* FileStore.Store builds; StoreInsert finishes it.
Upload(t, token, filename, content, random, rngOk) ==
    IF ~RequireSessionWhenLocked(token)
    THEN thr[t].pc = "idle" /\ LockedResponse("upload")
    ELSE StoreBegin(t, filename, content, random, rngOk)

\* FilesHandler.UploadEncrypted behind RequireSessionWhenLocked.
UploadEncrypted(token, name, f) ==
    LET Bad(res) == /\ ret' = Ret("upload_encrypted", res)
                    /\ UNCHANGED <<lk, sec, proc, allocated, storeVars, now, fb, calls, sessionVars, tripVars>>
    IN
    IF ~RequireSessionWhenLocked(token) THEN LockedResponse("upload_encrypted")
    ELSE IF ~IsLocked(session) THEN Bad("not_locked")
    ELSE IF ~FilenameOk(name) THEN Bad("invalid_filename")
    ELSE IF ~B64Ok(f.b64) THEN Bad("bad_base64")
    ELSE IF Len(B64DecodeString(f.b64)) > MaxFileSize + 1024 THEN Bad("too_large")
    ELSE AddEncryptedFile(f)

\* ClipboardHandler.SetText behind RequireSessionWhenLocked, up to the buffer
\* ClipboardStore.SetText builds; SetSwap finishes it.
MaxClipboardSize == 1048576
ClipboardSetText(t, token, txt, encryptedB64, rngOk) ==
    LET Bad(res) == /\ ret' = Ret("clipboard_set_text", res)
                    /\ UNCHANGED <<lk, sec, proc, allocated, storeVars, now, fb, calls, sessionVars, tripVars>>
    IN
    /\ thr[t].pc = "idle"
    /\ IF ~RequireSessionWhenLocked(token) THEN LockedResponse("clipboard_set_text")
       ELSE IF IsLocked(session) /\ encryptedB64 # <<>>
       THEN IF ~B64Ok(encryptedB64) THEN Bad("bad_base64")
            ELSE SetEncryptedClip("text", B64DecodeString(encryptedB64))
       ELSE IF txt = <<>> /\ encryptedB64 = <<>> THEN Bad("no_content")
       ELSE IF Len(txt) > MaxClipboardSize THEN Bad("too_large")
       ELSE SetBegin(t, "text", TrimSpace(txt), rngOk)

\* -------------------------------------------------------------- the mutexes
\* Every operation as the sequence of Lock, RLock, Unlock and RUnlock calls it
\* makes, a deferred unlock placed where the function returns.  One mutex
\* stands for each kind of object: the session manager (sm.mu), the session
\* (session.mu), the file store (fs.mu) and a stored file (file.mu), the
\* clipboard store (cs.mu) and its text entry (text.mu), the memory tracker
\* (memory.mu), a fortified buffer (fb.mu), one of its chunks (ob.mu) and the
\* tripwire (t.mu).
Mutexes ==
    {"sm.mu", "session.mu", "fs.mu", "file.mu", "cs.mu", "text.mu", "memory.mu", "fb.mu",
     "ob.mu", "t.mu"}

IdleAt == [op |-> "", pc |-> 0]

NoLocks ==
    [w |-> [m \in Mutexes |-> 0], r |-> [m \in Mutexes |-> {}],
     pend |-> [m \in Mutexes |-> {}], at |-> [t \in Threads |-> IdleAt]]

\* mu.Lock(); defer mu.Unlock() around steps, and the same for a read lock.
WithLock(mu, steps) == <<[do |-> "Lock", mu |-> mu]>> \o steps \o <<[do |-> "Unlock", mu |-> mu]>>
WithRLock(mu, steps) ==
    <<[do |-> "RLock", mu |-> mu]>> \o steps \o <<[do |-> "RUnlock", mu |-> mu]>>

\* MemoryTracker.Allocate and MemoryTracker.Free.
TrackerSteps == WithLock("memory.mu", <<>>)

\* FortifiedBuffer.Destroy destroys each chunk under the buffer's lock.
FortifiedDestroySteps == WithLock("fb.mu", WithLock("ob.mu", <<>>))

\* FortifiedBuffer.Read reads each chunk under the buffer's read lock.
FortifiedReadSteps == WithRLock("fb.mu", WithRLock("ob.mu", <<>>))

\* NewFortifiedBuffer registers the new buffer on the tripwire; the caller
\* then asks the buffer for its size.
NewFortifiedSteps == WithLock("t.mu", <<>>) \o WithRLock("fb.mu", <<>>)

\* A shredFile that looked the file up in the store again while holding the
\* file's lock.
ShredFileLooksUp ==
    WithLock("file.mu", WithRLock("fs.mu", <<>>) \o TrackerSteps \o FortifiedDestroySteps)

\* FileStore.shredFile and ClipboardStore.shredEntry.
ShredFileSteps == WithLock("file.mu", TrackerSteps \o FortifiedDestroySteps)
ShredEntrySteps == WithLock("text.mu", TrackerSteps \o FortifiedDestroySteps)

FilesShredAllSteps == WithLock("fs.mu", ShredFileSteps)
ClipboardShredAllSteps == WithLock("cs.mu", ShredEntrySteps)
ManagerSteps(steps) == WithLock("sm.mu", WithLock("session.mu", steps))

LockOps ==
    {"is_locked", "lock", "create_session", "force_unlock", "store", "get", "delete", "list",
     "files_shred_all", "files_cleanup", "files_clear_encrypted", "set_text", "shred_async",
     "get_text", "clipboard_shred_all", "rotate", "trigger"}

Program(op) ==
    CASE op = "is_locked" -> WithRLock("sm.mu", WithRLock("session.mu", <<>>))
      [] op = "lock" -> ManagerSteps(<<>>)
      [] op = "create_session" -> WithLock("sm.mu", <<>>)
      [] op = "force_unlock" -> ManagerSteps(FilesShredAllSteps \o ClipboardShredAllSteps)
      [] op = "store" -> TrackerSteps \o NewFortifiedSteps \o WithLock("fs.mu", <<>>)
      [] op = "get" -> WithRLock("fs.mu", <<>>) \o WithRLock("file.mu", FortifiedReadSteps)
      [] op = "delete" -> WithLock("fs.mu", <<>>) \o ShredFileSteps
      [] op = "list" -> WithRLock("fs.mu", WithRLock("file.mu", <<>>))
      [] op = "files_shred_all" -> FilesShredAllSteps
      [] op = "files_cleanup" -> WithLock("fs.mu", WithRLock("file.mu", <<>>) \o ShredFileSteps)
      [] op = "files_clear_encrypted" -> WithLock("fs.mu", WithLock("file.mu", <<>>))
      [] op = "set_text" -> NewFortifiedSteps \o WithLock("cs.mu", TrackerSteps)
      [] op = "shred_async" -> ShredEntrySteps
      [] op = "get_text" -> WithRLock("cs.mu", WithRLock("text.mu", FortifiedReadSteps))
      [] op = "clipboard_shred_all" -> ClipboardShredAllSteps
      [] op = "rotate" -> WithLock("ob.mu", <<>>)
      [] op = "trigger" ->
            WithLock("t.mu", <<>>) \o FilesShredAllSteps \o ClipboardShredAllSteps
            \o ManagerSteps(<<>>) \o FortifiedDestroySteps

\* The call thread t is about to make, and whether the mutex lets it through:
\* a sync.RWMutex gives the write lock when nobody holds it and refuses new
\* readers while a writer holds it or waits for it.
StepOf(t) == Program(lk.at[t].op)[lk.at[t].pc]

Ready(t) ==
    LET s == StepOf(t) IN
    CASE s.do = "Lock" -> lk.w[s.mu] = 0 /\ lk.r[s.mu] = {}
      [] s.do = "RLock" -> lk.w[s.mu] = 0 /\ lk.pend[s.mu] \ {t} = {}
      [] OTHER -> TRUE

LockBegin(t, op) ==
    /\ lk.at[t] = IdleAt
    /\ lk' = [lk EXCEPT !.at[t] = [op |-> op, pc |-> 1]]
    /\ UNCHANGED <<sec, proc, allocated, storeVars, now, fb, calls, sessionVars, tripVars, ret>>

LockStep(t) ==
    /\ lk.at[t] # IdleAt
    /\ Ready(t)
    /\ LET s == StepOf(t)
           a == lk.at[t]
           next == IF a.pc = Len(Program(a.op)) THEN IdleAt ELSE [a EXCEPT !.pc = @ + 1]
       IN lk' = CASE s.do = "Lock" ->
                       [lk EXCEPT !.w[s.mu] = t, !.pend[s.mu] = @ \ {t}, !.at[t] = next]
                  [] s.do = "RLock" -> [lk EXCEPT !.r[s.mu] = @ \cup {t}, !.at[t] = next]
                  [] s.do = "Unlock" -> [lk EXCEPT !.w[s.mu] = 0, !.at[t] = next]
                  [] s.do = "RUnlock" -> [lk EXCEPT !.r[s.mu] = @ \ {t}, !.at[t] = next]
    /\ UNCHANGED <<sec, proc, allocated, storeVars, now, fb, calls, sessionVars, tripVars, ret>>

\* A writer that finds the mutex taken announces itself and waits.
LockWait(t) ==
    /\ lk.at[t] # IdleAt
    /\ StepOf(t).do = "Lock"
    /\ ~Ready(t)
    /\ t \notin lk.pend[StepOf(t).mu]
    /\ lk' = [lk EXCEPT !.pend[StepOf(t).mu] = @ \cup {t}]
    /\ UNCHANGED <<sec, proc, allocated, storeVars, now, fb, calls, sessionVars, tripVars, ret>>

\* --------------------------------------------------------------------- Init
Init ==
    /\ allocated = 0
    /\ files = {}
    /\ text = <<>>
    /\ image = <<>>
    /\ shredQueue = <<>>
    /\ bufs = <<>>
    /\ thr = [t \in Threads |-> IdleThr]
    /\ now = 0
    /\ fb = <<>>
    /\ sec = NoSecure
    /\ lk = NoLocks
    /\ calls = [mu |-> FreeMu, smu |-> FreeMu, op |-> [t \in SessionThreads |-> IdleCall]]
    /\ session = <<>>
    /\ verified = {}
    /\ triggered = FALSE
    /\ callbacks = <<>>
    /\ trigTask = [k \in TrigTasks |-> IdleTask]
    /\ spawned = {}
    /\ invoked = [cb \in Handles |-> <<>>]
    /\ registered = [cb \in Handles |-> "no"]
    /\ proc = NewProcess
    /\ ret = Ret("new", "ok")

\* ------------------------------------------------------------------- Spec
\* The two stores over one tracker, with the tripwire their buffers register
\* with: two threads storing, replacing and deleting plaintext while the
\* sweepers run and the tripwire may fire.
Next ==
    \/ \E t \in Threads, r \in RandomFileIDs :
          Len(bufs) < MaxBuffers /\ StoreBegin(t, "a.txt", <<1, 2>>, r, TRUE)
    \/ \E t \in Threads : StoreInsert(t)
    \/ \E id \in FileIds : Delete(id)
    \/ FilesShredAll
    \/ FilesCleanupExpired
    \/ \E t \in Threads, k \in Slots :
          Len(bufs) < MaxBuffers /\ SetBegin(t, k, <<5>>, TRUE)
    \/ \E t \in Threads : SetSwap(t)
    \/ \E i \in 1 .. MaxBuffers : ShredAsyncRun(i)
    \/ \E k \in Slots : DeleteClip(k)
    \/ ClipboardShredAll
    \/ ClipboardCleanupExpired
    \/ Tick
    \/ TriggerBegin("manual")
    \/ TriggerInvoke("manual")
    \/ \E cb \in 1 .. MaxBuffers : SpawnedRun(cb)

Spec == Init /\ [][Next]_vars

\* ------------------------------------------------------------- SpecTracker
\* The tracker alone, called with every size a 64-bit argument can carry.
NextTracker ==
    \/ \E size \in Words : TrackerAllocate(size)
    \/ \E size \in Words : TrackerFree(size)

SpecTracker == Init /\ [][NextTracker]_vars

\* --------------------------------------------------------------- SpecFiles
\* The file store alone, called with every kind of input, failing ones included.
NextFiles ==
    \/ \E t \in Threads, f \in Filenames, c \in FileContents,
          r \in RandomFileIDs \cup {<<>>}, ok \in BOOLEAN :
          Len(bufs) < MaxBuffers /\ StoreBegin(t, f, c, r, ok)
    \/ \E t \in Threads : StoreInsert(t)
    \/ \E id \in FileIds \cup {<<"z">>, ShoutedId} : Get(id)
    \/ \E id \in FileIds \cup {<<"z">>, ShoutedId} : Delete(id)
    \/ FilesShredAll
    \/ FilesCleanupExpired
    \/ Tick

SpecFiles == Init /\ [][NextFiles]_vars

\* -------------------------------------------------------------- SpecStores
\* Both stores over one tracker, plaintext and encrypted operations mixed.
NextStores ==
    \/ Len(bufs) < MaxPlain /\ StoreBegin(1, "a.txt", <<1, 2>>, RandomA, TRUE)
    \/ StoreInsert(1)
    \/ Delete(GenerateFileID(RandomA))
    \/ FilesShredAll
    \/ FilesCleanupExpired
    \/ \E k \in Slots : Len(bufs) < MaxPlain /\ SetBegin(1, k, <<5>>, TRUE)
    \/ SetSwap(1)
    \/ \E i \in 1 .. MaxPlain + 1 : ShredAsyncRun(i)
    \/ \E k \in Slots : DeleteClip(k)
    \/ ClipboardShredAll
    \/ ClipboardCleanupExpired
    \/ \E list \in EncryptedFileLists : SetEncryptedFiles(list)
    \/ \E f \in EncryptedFileInfos : AddEncryptedFile(f)
    \/ FilesClearEncryptedData
    \/ \E k \in Slots, e \in {<<>>, Cipher} : SetEncryptedClip(k, e)
    \/ ClipboardClearEncryptedData
    \/ Tick

SpecStores == Init /\ [][NextStores]_vars

\* --------------------------------------------------------------- SpecReads
\* The file store holding a plaintext file and a ciphertext file, the
\* clipboard holding ciphertext in both slots, read through every read
\* operation while the clock moves and the sweepers run.
CipherB == <<7, 0, 255>>
ReadFileInfo ==
    [id |-> GenerateFileID(RandomA), size |-> 3, b64 |-> B64EncodeToString(CipherB)]
NextReads ==
    \/ Len(bufs) < MaxPlain /\ StoreBegin(1, "a.txt", <<1, 2>>, RandomB, TRUE)
    \/ StoreInsert(1)
    \/ SetEncryptedFiles(<<ReadFileInfo>>)
    \/ AddEncryptedFile(ReadFileInfo)
    \/ SetEncryptedClip("text", Cipher)
    \/ SetEncryptedClip("image", CipherB)
    \/ \E id \in FileIds : Get(id)
    \/ \E id \in FileIds : GetMetadata(id)
    \/ List
    \/ Count
    \/ \E k \in Slots : GetClip(k)
    \/ \E k \in Slots : ClipInfo(k)
    \/ CallGetEncryptedFiles
    \/ \E k \in Slots : CallGetEncryptedClip(k)
    \/ FilesCleanupExpired
    \/ ClipboardCleanupExpired
    \/ Tick

SpecReads == Init /\ [][NextReads]_vars

\* ------------------------------------------------------------ SpecShredAll
\* One thread storing files, one running ShredAll statement by statement,
\* and readers that wait while ShredAll holds fs.mu.
NextShredAll ==
    \/ \E r \in RandomFileIDs, c \in {<<7>>, <<1, 2>>} :
          Len(bufs) < MaxBuffers /\ StoreBegin(1, "a.txt", c, r, TRUE)
    \/ FsFree /\ StoreInsert(1)
    \/ ShredAllLock(2)
    \/ ShredAllNext(2)
    \/ ShredAllUnlock(2)
    \/ \E id \in FileIds : FsFree /\ Get(id)
    \/ FsFree /\ List
    \/ FsFree /\ Count

SpecShredAll == Init /\ [][NextShredAll]_vars

\* ---------------------------------------------------------------- SpecList
\* The file map filled one blob at a time and two blobs in one call, and
\* listed while the clock moves and the sweeper runs.
ReadFileInfoB ==
    [id |-> GenerateFileID(RandomB), size |-> 1, b64 |-> B64EncodeToString(Cipher)]
NextList ==
    \/ \E list \in {<<ReadFileInfo>>, <<ReadFileInfo, ReadFileInfoB>>} : SetEncryptedFiles(list)
    \/ \E f \in {ReadFileInfo, ReadFileInfoB} : AddEncryptedFile(f)
    \/ List
    \/ Count
    \/ FilesCleanupExpired
    \/ Tick

SpecList == Init /\ [][NextList]_vars

\* ------------------------------------------------------------- SpecSession
\* The session manager called directly by two clients that keep Unlock's contract.
NextSession ==
    \/ \E r \in RandomTokens \cup {<<>>} : CreateSession(r)
    \/ \E k \in KeyHashes, sl \in {SaltA, SaltB}, r \in RandomTokens \cup {<<>>} :
          SessionLock(k, sl, r)
    \/ \E c \in Clients, k \in Candidates : VerifyKeyHash(c, k)
    \/ \E c \in Clients : SessionUnlock(c)
    \/ SessionForceUnlock
    \/ SessionDestroy
    \/ GetSalt
    \/ SessionGetToken
    \/ \E name \in {"salt", "result"} : CallerWrites(name)

SpecSession == Init /\ [][NextSession]_vars

\* ----------------------------------------------------------------- SpecApi
\* The HTTP surface: the lock routes, and the data routes behind
\* RequireSessionWhenLocked, one request in flight per store.
ApiTexts == {<<>>, <<32, 5>>}
ApiRandom == [i \in 1 .. SessionTokenBytes |-> 17]
ApiKeyHash == [i \in 1 .. 32 |-> 1]
ApiLockRequests ==
    {req \in LockRequests :
        /\ req.keyHashB64 \in {B64EncodeToString(ApiKeyHash), B64EncodeToString(<<1>>)}
        /\ req.encryptedImageB64 = <<>>}
NextApi ==
    \/ \E req \in ApiLockRequests : LockHandlerLock(req, ApiRandom)
    \/ \E w \in KeyHashWires : LockHandlerUnlock(w)
    \/ SessionForceUnlock
    \/ \E tok \in Tokens :
          Len(bufs) < MaxPlain /\ Upload(1, tok, "a.txt", <<1, 2>>, RandomA, TRUE)
    \/ StoreInsert(1)
    \/ \E tok \in Tokens, f \in EncryptedFileInfos : UploadEncrypted(tok, "a.txt", f)
    \/ \E tok \in Tokens, txt \in ApiTexts, e \in Wires \cup {<<>>} :
          Len(bufs) < MaxPlain /\ ClipboardSetText(1, tok, txt, e, TRUE)
    \/ SetSwap(1)
    \/ \E i \in 1 .. MaxPlain + 1 : ShredAsyncRun(i)

SpecApi == Init /\ [][NextApi]_vars

\* -------------------------------------------------------------- SpecBuffer
\* One FortifiedBuffer built from any input under any options, its pads
\* rotating while it is read.
NextBuffer ==
    \/ \E data \in BufferInputs, opts \in FortifiedOptions, seed \in PadSeeds \cup {-1},
          draws \in DrawSeqs : NewFortifiedBufferWithOptions(data, opts, seed, draws)
    \/ \E c \in 0 .. MaxLen, seed \in PadSeeds \cup {-1} : Rotate(c, seed)
    \/ Read
    \/ Size
    \/ Destroy

SpecBuffer == Init /\ [][NextBuffer]_vars

\* -------------------------------------------------------- SpecSessionCalls
\* Three goroutines calling the session manager, interleaved at every
\* mutex acquisition and every field write: one making transitions, one
\* locking, unlocking and reading, one reading.
NextSessionCalls ==
    \/ \E t \in {2, 3}, op \in Readers : Call(t, op, ApiKeyHash, <<>>)
    \/ \E op \in Writers \ {"lock"} : Call(1, op, ApiKeyHash, <<>>)
    \/ \E t \in {1, 2}, sl \in {SaltA, SaltB} : Call(t, "lock", ApiKeyHash, sl)
    \/ Call(2, "unlock", ApiKeyHash, <<>>)
    \/ \E t \in SessionThreads : AcquireManager(t)
    \/ \E t \in SessionThreads : Enter(t, ApiRandom)
    \/ \E t \in SessionThreads : AcquireSession(t)
    \/ \E t \in SessionThreads : Body(t)
    \/ \E t \in SessionThreads : WriteSalt(t)
    \/ \E t \in SessionThreads : WriteLocked(t)
    \/ \E t \in SessionThreads : Return(t)

SpecSessionCalls == Init /\ [][NextSessionCalls]_vars

\* ----------------------------------------------------------- SpecOverwrite
\* Two threads overwriting the text slot with A and B, again and again.
TextA == <<5>>
TextB == <<6, 6>>
NextOverwrite ==
    \/ \E t \in Threads, c \in {TextA, TextB} :
          Len(bufs) < MaxSets /\ SetBegin(t, "text", c, TRUE)
    \/ \E t \in Threads : SetSwap(t)
    \/ \E i \in 1 .. MaxSets : ShredAsyncRun(i)
    \/ GetClip("text")

SpecOverwrite == Init /\ [][NextOverwrite]_vars

\* ---------------------------------------------------------------- SpecMain
\* The process from main() to its exit: requests storing a file, setting
\* clipboard text and locking the session while the watcher may detect an
\* intrusion and a signal may start the shutdown.  Nothing runs once the
\* process has exited.  The loop of trigger() never gets past main's
\* callback, which is registered first and ends in os.Exit.
Live == ~proc.exited
NextMain ==
    \/ Live /\ MainStart
    \/ Live /\ MainServe
    \/ Live /\ proc.accepting /\ Len(bufs) < MaxPlain
            /\ StoreBegin(1, "a.txt", <<1, 2>>, RandomA, TRUE)
    \/ Live /\ StoreInsert(1)
    \/ Live /\ proc.accepting /\ SetEncryptedClip("text", Cipher)
    \/ Live /\ proc.accepting /\ SessionLock(ApiKeyHash, SaltA, ApiRandom)
    \/ Live /\ proc.watching /\ TriggerBegin("watcher")
    \/ \E cb \in 1 .. MaxPlain : Live /\ SpawnedRun(cb)
    \/ \E who \in {"watcher", "spawn"} : Live /\ CallbackShredFiles(who)
    \/ Live /\ CallbackShredClipboard
    \/ Live /\ CallbackDestroySession
    \/ Live /\ CallbackExit
    \/ Live /\ MainShutdown
    \/ Live /\ MainShredFiles
    \/ Live /\ MainShredClipboard
    \/ Live /\ MainDestroySession
    \/ Live /\ MainDeferred

SpecMain == Init /\ [][NextMain]_vars

\* ----------------------------------------------------------------- SpecGet
\* Thread 1 stores files and reads them one statement at a time, thread 2
\* deletes them, while the clock advances and the tripwire fires.
NextGet ==
    \/ \E r \in RandomFileIDs :
          Len(bufs) < MaxBuffers /\ StoreBegin(1, "a.txt", <<1, 2>>, r, TRUE)
    \/ StoreInsert(1)
    \/ \E id \in FileIds : GetFind(1, id)
    \/ GetLockFile(1)
    \/ GetLockBuffer(1)
    \/ GetReadChunk(1)
    \/ GetReturn(1)
    \/ \E id \in FileIds : DeleteRemove(2, id)
    \/ DeleteShred(2)
    \/ TriggerBegin("manual")
    \/ TriggerDestroy("manual")
    \/ Tick
SpecGet == Init /\ [][NextGet]_vars

\* --------------------------------------------------------- SpecForceUnlock
\* A client stores data and locks, unlocks or force-unlocks the session, the
\* latter one statement at a time.
NextForceUnlock ==
    \/ \E r \in RandomFileIDs :
          Len(bufs) < MaxBuffers /\ StoreBegin(1, "a.txt", <<1, 2>>, r, TRUE)
    \/ StoreInsert(1)
    \/ \E k \in Slots : SetEncryptedClip(k, Cipher)
    \/ \E r \in RandomTokens : SmFree /\ CreateSession(r)
    \/ \E k \in KeyHashes, r \in RandomTokens : SmFree /\ SessionLock(k, SaltA, r)
    \/ \E c \in Clients, k \in KeyHashes : SmFree /\ VerifyKeyHash(c, k)
    \/ \E c \in Clients : SmFree /\ SessionUnlock(c)
    \/ ForceUnlockBegin(2)
    \/ ForceUnlockCallback(2)
    \/ ForceUnlockClear(2)
SpecForceUnlock == Init /\ [][NextForceUnlock]_vars

\* -------------------------------------------------------------- SpecRelock
\* Clients locking a session that may already be locked, at different times
\* and with different credentials.
NextRelock ==
    \/ \E r \in RandomTokens : CreateSession(r)
    \/ \E k \in KeyHashes, sl \in {SaltA, SaltB}, r \in RandomTokens \cup {<<>>} :
          SessionLock(k, sl, r)
    \/ \E c \in Clients, k \in KeyHashes : VerifyKeyHash(c, k)
    \/ \E c \in Clients : SessionUnlock(c)
    \/ Tick
SpecRelock == Init /\ [][NextRelock]_vars

\* --------------------------------------------------------- SpecLockLengths
\* Lock requests whose key hash and salt have the right length, one byte
\* less or one byte more, or that carry no key hash.
LengthKeyHashes == {[i \in 1 .. n |-> 1] : n \in {31, 32, 33}}
LengthSalts == {[i \in 1 .. n |-> 7] : n \in {15, 16, 17}}
LengthLockRequests ==
    [keyHashB64 : {B64EncodeToString(k) : k \in LengthKeyHashes} \cup {<<>>},
     saltB64 : {B64EncodeToString(sl) : sl \in LengthSalts},
     clearExisting : BOOLEAN,
     encryptedClipboardB64 : {<<>>},
     encryptedImageB64 : {<<>>},
     encryptedFiles : {<<>>}]
NextLockLengths ==
    \/ \E req \in LengthLockRequests : LockHandlerLock(req, ApiRandom)
    \/ \E k \in LengthKeyHashes : LockHandlerUnlock(B64EncodeToString(k))
    \/ \E c \in Clients : VerifyKeyHash(c, ApiKeyHash)
    \/ \E c \in Clients : SessionUnlock(c)
    \/ SessionForceUnlock
    \/ \E k \in Slots : SetEncryptedClip(k, Cipher)
SpecLockLengths == Init /\ [][NextLockLengths]_vars

\* --------------------------------------------------------------- SpecPanic
\* The tripwire with callers' callbacks of which one panics; nothing runs
\* once the process has ended.
NextPanic ==
    \/ \E cb \in CallbackIds : Live /\ Register(cb)
    \/ \E task \in TrigTasks : Live /\ TriggerBegin(task)
    \/ \E task \in TrigTasks :
          /\ Live /\ trigTask[task].pc = "running"
          /\ ~Panics(trigTask[task].snap[trigTask[task].i])
          /\ TriggerInvoke(task)
    \/ \E task \in TrigTasks : Live /\ TriggerPanic(task)
    \/ \E cb \in CallbackIds : Live /\ ~Panics(cb) /\ SpawnedRun(cb)
    \/ \E cb \in CallbackIds : Live /\ SpawnedPanic(cb)
SpecPanic == Init /\ [][NextPanic]_vars

\* ------------------------------------------------------------- SpecSetFail
\* Two threads setting the clipboard slots with contents that fit, that do
\* not fit next to what is stored, or from which no buffer can be built.
NextSetFail ==
    \/ \E t \in Threads, k \in Slots, c \in {<<>>, <<5>>, <<6, 6>>}, ok \in BOOLEAN :
          Len(bufs) < MaxSets /\ SetBegin(t, k, c, ok)
    \/ \E t \in Threads : SetSwap(t)
    \/ \E i \in 1 .. MaxSets : ShredAsyncRun(i)
    \/ \E k \in Slots : GetClip(k)
SpecSetFail == Init /\ [][NextSetFail]_vars

\* ------------------------------------------------------------ SpecDestroy
\* The five buffer types and their Destroy: SecureBuffers and SecureKeys,
\* ObfuscatedBuffers with their rotation goroutines, and one FortifiedBuffer
\* in each of its modes (scatter only is a ScatteredBuffer). A run works on
\* the objects of one family: they share no state.
KeyInputs == {<<7, 9>>, <<7, 8>>, <<4>>, Zeros(MaxKeySize + 1)}
DestroyOptions == {o \in FortifiedOptions : o.chunkSize = 1}
NextDestroy ==
    \/ \E size \in {0, 2} :
          sec.keys = <<>> /\ sec.chunks = <<>> /\ fb = <<>> /\ NewSecureBuffer(size)
    \/ \E data \in SecureInputs \cup {<<>>} :
          sec.keys = <<>> /\ sec.chunks = <<>> /\ fb = <<>> /\ NewSecureBufferFromBytes(data)
    \/ \E h \in 1 .. MaxSecure : Bytes(h)
    \/ \E h \in 1 .. MaxSecure : SecureBufferSize(h)
    \/ \E h \in 1 .. MaxSecure : Copy(h)
    \/ \E h \in 1 .. MaxSecure : Wipe(h)
    \/ \E h \in 1 .. MaxSecure : Use(h)
    \/ \E h \in 1 .. MaxSecure, data \in SecureInputs : MutableUse(h, data)
    \/ \E h \in 1 .. MaxSecure : Seal(h)
    \/ \E h \in 1 .. MaxSecure : SecureBufferDestroy(h)
    \/ \E keyData \in KeyInputs \cup {<<>>} :
          sec.buffers = <<>> /\ sec.chunks = <<>> /\ fb = <<>> /\ NewSecureKey(keyData)
    \/ \E k \in 1 .. MaxSecure : KeyUse(k)
    \/ \E k \in 1 .. MaxSecure : KeySize(k)
    \/ \E k \in 1 .. MaxSecure : Clone(k)
    \/ \E k \in 1 .. MaxSecure : KeyDestroy(k)
    \/ \E k \in 1 .. MaxSecure, other \in 1 .. MaxSecure : Equal(1, k, other)
    \/ EqualUse(1)
    \/ EqualOtherUse(1)
    \/ \E data \in {<<>>, <<7, 9>>}, seed \in {-1, 90} :
          sec.buffers = <<>> /\ sec.keys = <<>> /\ fb = <<>> /\ NewObfuscatedBuffer(data, seed)
    \/ \E i \in 1 .. MaxChunks : RotateLoopTick(i)
    \/ \E i \in 1 .. MaxChunks, seed \in {-1, 255} : RotateLoopRotate(i, seed)
    \/ \E i \in 1 .. MaxChunks : RotateLoopDone(i)
    \/ \E i \in 1 .. MaxChunks : ObfuscatedDestroy(i)
    \/ \E i \in 1 .. MaxChunks : ObfuscatedBufferRead(i)
    \/ \E i \in 1 .. MaxChunks : ObfuscatedBufferSize(i)
    \/ FortifiedDestroyChunks
    \/ \E opts \in DestroyOptions, draws \in DrawSeqs :
          sec = NoSecure /\ NewFortifiedBufferWithOptions(<<67, 134>>, opts, 90, draws)
    \/ Read
    \/ Size
    \/ Destroy
SpecDestroy == Init /\ [][NextDestroy]_vars

\* ----------------------------------------------------------- SpecRotation
\* ObfuscatedBuffers, alone or as the chunks of a FortifiedBuffer, against
\* their rotation goroutines. A goroutine that is in rotate() gets the lock
\* in the end, and a select that keeps finding done closed takes that case
\* in the end (Go chooses among the ready cases at random).
NextRotation ==
    \/ \E data \in {<<>>, <<7, 9>>}, seed \in {-1, 90} : NewObfuscatedBuffer(data, seed)
    \/ \E i \in 1 .. MaxChunks : RotateLoopTick(i)
    \/ \E i \in 1 .. MaxChunks, seed \in {-1, 255} : RotateLoopRotate(i, seed)
    \/ \E i \in 1 .. MaxChunks : RotateLoopDone(i)
    \/ \E i \in 1 .. MaxChunks : ObfuscatedDestroy(i)
    \/ \E i \in 1 .. MaxChunks : ObfuscatedBufferRead(i)
    \/ \E i \in 1 .. MaxChunks : ObfuscatedBufferSize(i)
    \/ FortifiedDestroyChunks
SpecRotation ==
    /\ Init
    /\ [][NextRotation]_vars
    /\ \A i \in 1 .. MaxChunks :
          /\ WF_vars(\E seed \in {-1, 255} : RotateLoopRotate(i, seed))
          /\ SF_vars(RotateLoopDone(i))

\* -------------------------------------------------------------- SpecEqual
\* Two threads comparing SecureKeys with Equal, in either direction, while
\* keys are made and destroyed.
NextEqual ==
    \/ \E keyData \in {<<7, 9>>, <<7, 8>>} : NewSecureKey(keyData)
    \/ \E t \in Threads, k \in 1 .. MaxSecure, other \in 1 .. MaxSecure : Equal(t, k, other)
    \/ \E t \in Threads : EqualUse(t)
    \/ \E t \in Threads : EqualOtherUse(t)
    \/ \E k \in 1 .. MaxSecure : KeyDestroy(k)
SpecEqual == Init /\ [][NextEqual]_vars

\* --------------------------------------------------------- SpecLateInsert
\* Encrypted uploads and encrypted clipboard writes, in their two steps,
\* against a force-unlock. The session is locked through Lock and leaves
\* Locked through ForceUnlock only.
NextLateInsert ==
    \/ \E k \in KeyHashes, r \in RandomTokens : SmFree /\ SessionLock(k, SaltA, r)
    \/ \E f \in EncryptedFileInfos : UploadEncryptedCheck(1, f)
    \/ UploadEncryptedAdd(1)
    \/ \E w \in Wires : SetTextCheck(1, w)
    \/ SetTextStore(1)
    \/ ForceUnlockBegin(2)
    \/ ForceUnlockCallback(2)
    \/ ForceUnlockClear(2)
SpecLateInsert == Init /\ [][NextLateInsert]_vars

\* ------------------------------------------------------------ SpecLocks
\* Two goroutines run any of the operations against the same objects, one
\* mutex call at a time.  A blocked goroutine is woken when the mutex is
\* released (sync hands a starving waiter the lock), hence the fairness.
NextLocks ==
    \/ \E t \in Threads, op \in LockOps : LockBegin(t, op)
    \/ \E t \in Threads : LockStep(t)
    \/ \E t \in Threads : LockWait(t)

SpecLocks ==
    /\ Init
    /\ [][NextLocks]_vars
    /\ \A t \in Threads : SF_vars(LockStep(t)) /\ WF_vars(LockWait(t))

\* ------------------------------------------------------------ SpecTripwire
\* The tripwire alone: callers registering callbacks while the watcher and a
\* manual trigger race.
NextTripwire ==
    \/ \E cb \in CallbackIds : Register(cb)
    \/ \E task \in TrigTasks : TriggerBegin(task)
    \/ \E task \in TrigTasks : TriggerInvoke(task)
    \/ \E cb \in CallbackIds : SpawnedRun(cb)

SpecTripwire == Init /\ [][NextTripwire]_vars
LeavesLocked == IsLocked(session) /\ ~IsLocked(session')
RoundTrip ==
    /\ (fb # <<>> /\ ~fb[1].destroyed) =>
          /\ FortifiedRead(fb[1]) = fb[1].orig
          /\ FortifiedSize(fb[1]) = Len(fb[1].orig)
    /\ (ret.op = "read" /\ ret.res = "ok") => ret.val = fb[1].orig
    /\ (ret.op = "size" /\ ~fb[1].destroyed) => ret.n = Len(fb[1].orig)

\* A buffer of several shuffled chunks, the last one short, read after its
\* pads have rotated.
RotatedChunksRead ==
    /\ ret.op = "read" /\ ret.res = "ok"
    /\ fb[1].rotations = MaxRotations
    /\ Len(fb[1].obfuscatedChunks) >= 3
    /\ fb[1].chunkSize > 1
    /\ fb[1].totalSize % fb[1].chunkSize # 0
    /\ fb[1].chunkOrder # [k \in 1 .. Len(fb[1].chunkOrder) |-> k - 1]
    /\ \E i \in 1 .. Len(fb[1].orig) : fb[1].orig[i] # 0

\* ===================================================================== C2
\* C2: while the session is Locked, neither store holds a plaintext buffer:
\* every file entry and every clipboard slot carries ciphertext only.
Plain(e) == e.data # 0
OnlyCiphertextWhileLocked ==
    IsLocked(session) =>
        /\ \A f \in files : ~Plain(f)
        /\ text # <<>> => ~Plain(text[1])
        /\ image # <<>> => ~Plain(image[1])

\* ===================================================================== C3
\* C3 as stated: for the two stores sharing one tracker, every Free issued
\* when an entry is shredded is matched by the Allocate of the same size
\* made for that entry; once no call is in flight and no background shred is
\* pending, allocated equals the bytes reserved for the entries still held;
\* and after ShredAll on one store allocated counts exactly the bytes
\* reserved by the other.
RECURSIVE SumReserved(_)
SumReserved(S) ==
    IF S = {} THEN 0
    ELSE LET e == CHOOSE x \in S : TRUE IN e.reserved + SumReserved(S \ {e})
SlotReserved(slot) == IF slot = <<>> THEN 0 ELSE slot[1].reserved
AtRest == shredQueue = <<>> /\ \A t \in Threads : thr[t].pc = "idle"
TrackerLedger ==
    [][/\ \A rec \in ret'.log : rec.size > 0 => rec.reserved = rec.size
       /\ AtRest' =>
             allocated' = SumReserved(files') + SlotReserved(text') + SlotReserved(image')
       /\ (AtRest' /\ ret'.op = "files_shred_all") =>
             allocated' = SlotReserved(text') + SlotReserved(image')
       /\ (AtRest' /\ ret'.op = "clipboard_shred_all") =>
             allocated' = SumReserved(files')]_vars

\* ===================================================================== C4
\* C4 as stated: in every reachable state of the tracker 0 <= allocated <=
\* limit; Allocate(n) adds n iff allocated + n <= limit and otherwise fails
\* leaving allocated unchanged; Free(n) subtracts n, saturating at zero; for
\* every size a 64-bit argument can carry.
TrackerContract ==
    [][/\ 0 <= allocated' /\ allocated' <= MemLimit
       /\ (ret'.op = "allocate" /\ ret'.n > 0) =>
             IF allocated + ret'.n <= MemLimit
             THEN ret'.res = "ok" /\ allocated' = allocated + ret'.n
             ELSE ret'.res = "limit" /\ allocated' = allocated
       /\ (ret'.op = "free" /\ ret'.n > 0) =>
             allocated' = IF allocated - ret'.n < 0 THEN 0 ELSE allocated - ret'.n]_vars

\* ===================================================================== C5
\* C5: a Store that fails (storage full, file too large, id generation,
\* buffer construction, bad filename) inserts no entry, leaves allocated as
\* it was before the call, creates no buffer and returns with the caller's
\* content zeroized; content that does not fit under the limit fails with
\* the storage-full error.
StoreFailed(r) == r.op = "store" /\ r.res \notin {"ok", "pending"}
StoreFailureClean ==
    [][/\ StoreFailed(ret') =>
             /\ allocated' = allocated
             /\ files' = files
             /\ bufs' = bufs
             /\ ret'.slice = Zeros(ret'.n)
       /\ (/\ ret'.op = "store"
           /\ ret'.res \notin {"ok", "invalid_filename"}
           /\ ret'.n <= MaxFileSize
           /\ allocated + ret'.n > MemLimit) => ret'.res = "storage_full"]_vars

\* A store refused for lack of room while a file is held.
StoreFullSeen ==
    /\ ret.op = "store" /\ ret.res = "storage_full"
    /\ files # {}
    /\ allocated > 0

\* ===================================================================== C7
\* C7 as stated: whenever an entry created by Store, SetText or SetImage is
\* shredded (by a delete, a sweep, ShredAll or the asynchronous shred of a
\* replaced entry), allocated goes down by the bytes reserved for the entry,
\* and no entry is shredded twice, whatever the tripwire did to its buffer.
FreedExactlyOnce ==
    [][\A rec \in ret'.log :
          rec.origin \in {"store", "set_text", "set_image"} =>
              rec.took = rec.reserved /\ rec.shreds = 0]_vars
\* ===================================================================== C6
\* C6: for content of length 1..MaxFileSize that fits under the limit,
\* Store does not refuse it, reserves its length and returns an id of 16
\* lowercase hex digits under which the file is held; Get of a held id up to
\* its deadline returns the bytes that were stored; Delete of a held id
\* removes it and gives back exactly what Store reserved; Get of an id that
\* is not held returns not-found.
LowerHexId(id) ==
    /\ Len(id) = 16
    /\ \A i \in 1 .. Len(id) : \E j \in 1 .. 16 : id[i] = HexDigits[j]
Held(fls, id) == \E f \in fls : f.id = id
HeldFile(fls, id) == CHOOSE f \in fls : f.id = id
FileLifecycle ==
    [][/\ (/\ ret'.op = "store"
           /\ ret'.n >= 1 /\ ret'.n <= MaxFileSize
           /\ allocated + ret'.n <= MemLimit) =>
             ret'.res \notin {"too_large", "storage_full"}
       /\ (ret'.op = "store" /\ ret'.res = "pending") =>
             allocated' = allocated + ret'.n
       /\ (ret'.op = "store" /\ ret'.res = "ok") =>
             /\ LowerHexId(ret'.id)
             /\ Held(files', ret'.id)
             /\ HeldFile(files', ret'.id).reserved = ret'.n
             /\ Len(bufs[HeldFile(files', ret'.id).data].orig) = ret'.n
       /\ (/\ ret'.op = "get" /\ ret'.id \in FileIds
           /\ Held(files, ret'.id)
           /\ now <= HeldFile(files, ret'.id).expiresAt) =>
             /\ ret'.res = "ok"
             /\ ret'.val = bufs[HeldFile(files, ret'.id).data].orig
       /\ (ret'.op = "get" /\ ret'.id \in FileIds /\ ~Held(files, ret'.id)) =>
             ret'.res = "not_found"
       /\ (ret'.op = "delete" /\ ret'.res = "ok" /\ ret'.id \in FileIds) =>
             /\ Held(files, ret'.id)
             /\ ~Held(files', ret'.id)
             /\ allocated' = allocated - HeldFile(files, ret'.id).reserved]_vars

\* Get answering not-found for an id whose file was stored and deleted, with
\* the tracker back at zero.
LifecycleDone ==
    /\ ret.op = "get" /\ ret.res = "not_found" /\ ret.id \in FileIds
    /\ \E h \in 1 .. Len(bufs) : bufs[h].shreds = 1
    /\ files = {}
    /\ allocated = 0

\* ===================================================================== C8
\* C8: whenever no SetText is in flight and no background shred is pending,
\* and some SetText has succeeded, the text slot holds exactly A or exactly B,
\* GetText returns it, every other buffer has been destroyed, and allocated
\* equals the size of the entry that remains.
Quiescent == shredQueue = <<>> /\ \A t \in Threads : thr[t].pc = "idle"
OverwriteSettled ==
    (Quiescent /\ text # <<>>) =>
        /\ text[1].data # 0
        /\ ~bufs[text[1].data].destroyed
        /\ bufs[text[1].data].content \in {TextA, TextB}
        /\ allocated = Len(bufs[text[1].data].content)
        /\ \A h \in 1 .. Len(bufs) : h # text[1].data => bufs[h].destroyed
        /\ ret.op = "get_text" =>
              ret.res = "ok" /\ ret.val = bufs[text[1].data].content

\* At rest after both threads have overwritten: one entry, one displaced and shredded.
OverwriteRaced ==
    /\ Quiescent
    /\ text # <<>>
    /\ ret.op = "get_text" /\ ret.res = "ok"
    /\ \E h \in 1 .. Len(bufs) : bufs[h].shreds = 1

\* ===================================================================== C9
\* C9: no callback is invoked twice; a callback is invoked only after the
\* trigger, one registered before the trigger by the task that triggered, one
\* registered after it by a task of its own; and once the trigger loop and the
\* spawned tasks have finished, every registered callback has been invoked.
Triggerer(task) == trigTask[task].i > 0
TripwireQuiet == spawned = {} /\ \A task \in TrigTasks : trigTask[task].pc # "running"
CallbacksExactlyOnce ==
    /\ \A cb \in CallbackIds :
          /\ Len(invoked[cb]) <= 1
          /\ invoked[cb] # <<>> =>
                /\ triggered
                /\ registered[cb] # "no"
                /\ registered[cb] = "early" =>
                      invoked[cb][1] \in TrigTasks /\ Triggerer(invoked[cb][1])
                /\ registered[cb] = "late" => invoked[cb][1] = "spawn"
    /\ Cardinality({task \in TrigTasks : Triggerer(task)}) <= 1
    /\ (triggered /\ TripwireQuiet) =>
          \A cb \in CallbackIds : registered[cb] # "no" => Len(invoked[cb]) = 1

\* Both kinds of callback have run: one registered early, one late, after
\* both triggers were attempted.
CallbacksBothKinds ==
    /\ TripwireQuiet
    /\ \A task \in TrigTasks : trigTask[task].pc = "done"
    /\ \E cb \in CallbackIds : registered[cb] = "early" /\ Len(invoked[cb]) = 1
    /\ \E cb \in CallbackIds : registered[cb] = "late" /\ Len(invoked[cb]) = 1

\* ==================================================================== C11
\* The ObfuscatedBuffers of the buffer under test, each with the bytes it
\* was built from.
LiveObfuscated ==
    IF fb = <<>> \/ fb[1].destroyed THEN {}
    ELSE {[ob |-> fb[1].obfuscated[i], input |-> fb[1].orig] :
              i \in 1 .. Len(fb[1].obfuscated)}
         \cup {[ob |-> fb[1].obfuscatedChunks[i],
                input |-> ChunkData(fb[1].orig, fb[1].chunkOrder[i], fb[1].chunkSize)] :
                   i \in 1 .. Len(fb[1].obfuscatedChunks)}

\* C11: in every reachable state each live ObfuscatedBuffer satisfies
\* data[i] XOR pad[i] = input[i] for all i, so Read returns the input after
\* any rotations; a rotation whose random read fails changes neither data
\* nor pad.
ObfuscationInvariant ==
    [][/\ \A o \in LiveObfuscated' :
             /\ o.ob.size = Len(o.input)
             /\ \A i \in 1 .. o.ob.size : Xor(o.ob.data[i], o.ob.pad[i]) = o.input[i]
             /\ ObfuscatedRead(o.ob) = o.input
       /\ (ret'.op = "rotate" /\ ret'.res = "random") =>
             /\ fb'[1].obfuscated = fb[1].obfuscated
             /\ fb'[1].obfuscatedChunks = fb[1].obfuscatedChunks]_vars

\* A single obfuscated buffer of non-zero bytes whose pad has rotated and
\* whose latest rotation failed.
RotationFailedAfterRotation ==
    /\ ret.op = "rotate" /\ ret.res = "random"
    /\ fb[1].rotated > 0
    /\ fb[1].obfuscated # <<>>
    /\ \E i \in 1 .. Len(fb[1].orig) : fb[1].orig[i] # 0

\* ==================================================================== C12
\* The chunk size and chunk count a scattering buffer ended up with.
ScatterChunkSize(b) ==
    IF b.scattered # <<>> THEN b.scattered[1].chunkSize ELSE b.chunkSize
ScatterCount(b) ==
    IF b.scattered # <<>> THEN Len(b.scattered[1].chunks) ELSE Len(b.obfuscatedChunks)

\* C12: a buffer built with scatter from n >= 1 bytes and any requested
\* chunk size has chunk size >= 1 and at least 4 chunks; when
\* ceil(n / requested chunk size) < 4 it has exactly 4.
ForcedScatter ==
    [][(ret'.op = "new_fortified" /\ ret'.res = "ok" /\ fb'[1].useScatter) =>
          LET n == Len(fb'[1].orig)
              requested == IF ret'.n <= 0 THEN DefaultChunkSize ELSE ret'.n
              k == ScatterCount(fb'[1])
          IN /\ ScatterChunkSize(fb'[1]) >= 1
             /\ k >= 4
             /\ (n + requested - 1) \div requested < 4 => k = 4]_vars

\* ==================================================================== C13
\* The order of a scattering buffer: sb.order, or fb.chunkOrder.
ScatterOrder(b) ==
    IF b.scattered # <<>> THEN b.scattered[1].order ELSE b.chunkOrder

\* C13: the order of every live scattering buffer with k chunks is a
\* bijection on 0 .. k-1, whichever draws of the shuffle failed.
OrderIsBijection ==
    (fb # <<>> /\ ~fb[1].destroyed /\ fb[1].useScatter) =>
        LET order == ScatterOrder(fb[1])
            k == ScatterCount(fb[1])
        IN /\ Len(order) = k
           /\ \A i \in 1 .. k : order[i] \in 0 .. k - 1
           /\ \A p \in 0 .. k - 1 : Cardinality({i \in 1 .. k : order[i] = p}) = 1

\* A buffer of at least four chunks shuffled with some draws failing and
\* some succeeding, its order no longer the identity.
ShuffledWithFallback ==
    /\ ret.op = "new_fortified" /\ ret.res = "ok"
    /\ fb[1].useScatter
    /\ ScatterCount(fb[1]) >= 4
    /\ \E i, j \in 1 .. Len(ret.val) : ret.val[i] < 0 /\ ret.val[j] >= 0
    /\ ScatterOrder(fb[1]) # [k \in 1 .. ScatterCount(fb[1]) |-> k - 1]

\* ==================================================================== C14
\* What a read answers when it runs alone on session sess.
AtomicAnswer(op, sess, keyHash) ==
    CASE op = "is_locked" -> [res |-> IF IsLocked(sess) THEN "true" ELSE "false", val |-> <<>>]
      [] op = "status" -> [res |-> IF sess = <<>> THEN "none"
                                   ELSE IF sess[1].locked THEN "locked" ELSE "unlocked",
                           val |-> <<>>]
      [] op = "get_salt" -> [res |-> IF IsLocked(sess) /\ sess[1].salt # <<>> THEN "ok" ELSE "nil",
                             val |-> IF IsLocked(sess) THEN sess[1].salt ELSE <<>>]
      [] OTHER -> [res |-> SmVerifyKeyHash(sess, keyHash), val |-> <<>>]

\* C14: session transitions are linearisable. When Lock returns success the
\* session is Locked with the key hash and salt just given; when Unlock or
\* ForceUnlock returns success it is Unlocked with both nil; a read that
\* begins when no transition is in flight, and returns before another one
\* begins, answers from the state the last transition left; and no read that
\* saw locked = true sees a nil salt or a nil key hash.
Linearisable ==
    [][\A t \in SessionThreads :
          (calls.op[t].pc = "ret" /\ calls'.op[t].pc = "idle") =>
             LET c == calls.op[t] IN
             /\ (c.op = "lock" /\ c.res = "ok") =>
                   /\ IsLocked(session')
                   /\ session'[1].salt = <<c.salt>>
                   /\ session'[1].keyHash = <<c.keyHash>>
             /\ (c.op \in {"unlock", "force_unlock"} /\ c.res = "ok") =>
                   /\ session' # <<>> /\ ~session'[1].locked
                   /\ session'[1].salt = <<>> /\ session'[1].keyHash = <<>>
             /\ (c.op = "destroy") => session' = <<>>
             /\ (c.op \in Readers /\ c.expect # <<>>) =>
                   /\ c.res = AtomicAnswer(c.op, c.expect[1], c.keyHash).res
                   /\ c.val = AtomicAnswer(c.op, c.expect[1], c.keyHash).val
             /\ c.res # "panic"
             /\ (c.op = "get_salt" /\ c.sawLocked) => c.val # <<>>
             /\ (c.op = "verify_key_hash" /\ c.sawLocked) => c.res # "nil_key_hash"]_vars

\* GetSalt has returned the second salt of a session locked twice, to a
\* call that began with no transition in flight, while an Unlock waits for
\* sm.mu behind another reader.
ReadBetweenTransitions ==
    /\ ret.op = "get_salt" /\ ret.val = <<SaltB>> /\ ret.slice # <<>>
    /\ \E u \in SessionThreads : calls.op[u].op = "unlock" /\ calls.op[u].pc = "sm"
    /\ \E u \in SessionThreads : calls.op[u].op \in Readers /\ u \in calls.mu.r

\* ==================================================================== C15
\* C15: a Lock that succeeds starts from no session or an unlocked one and
\* leaves the session locked, with a salt equal to the caller's that GetSalt
\* hands out as a copy, and with a token of 64 hex characters that is the old
\* token when a session existed; no later write by the caller to the slice it
\* passed, or to the slice GetSalt returned, changes the session.
IsSessionToken(token) ==
    /\ Len(token) = SessionTokenLength
    /\ \A i \in 1 .. Len(token) : \E d \in 1 .. 16 : token[i] = HexDigits[d]
LockPostcondition ==
    [][/\ (ret'.op = "lock" /\ ret'.res = "ok") =>
            /\ ~IsLocked(session)
            /\ IsLocked(session')
            /\ session'[1].salt = <<ret'.slice>>
            /\ IsSessionToken(GetToken(session'))
            /\ session # <<>> => GetToken(session') = GetToken(session)
       /\ (ret'.op = "get_salt" /\ IsLocked(session)) =>
            /\ ret'.res = "ok" /\ <<ret'.val>> = session[1].salt
            /\ session'[1].salt = session[1].salt
       /\ ret'.op = "caller_writes" => session' = session]_vars
\* The caller has zeroed the slice GetSalt gave it, or the one it locked
\* with, and the session still holds the second salt under the token it had
\* before the lock.
CallerWroteAfterLock ==
    /\ ret.op = "caller_writes"
    /\ IsLocked(session) /\ session[1].salt = <<SaltB>>
    /\ GetToken(session) = GenerateSessionTokenString([i \in 1 .. SessionTokenBytes |-> 34])

\* ==================================================================== C16
\* C16: Unlock of a locked session leaves it unlocked with no salt and no key
\* hash, the arrays that held them zeroed, and the token as it was; Unlock
\* with no session or an unlocked one answers "not locked" and changes nothing.
UnlockPostcondition ==
    [][ret'.op = "unlock" =>
          IF IsLocked(session)
          THEN /\ ret'.res = "ok"
               /\ session' # <<>> /\ ~IsLocked(session')
               /\ session'[1].salt = <<>> /\ session'[1].keyHash = <<>>
               /\ ret'.val = Zeros(Len(session[1].keyHash[1]) + Len(session[1].salt[1]))
               /\ GetToken(session') = GetToken(session)
          ELSE ret'.res = "not_locked" /\ session' = session]_vars
\* An Unlock has cleared a session that was locked with a 32-byte key hash
\* and a 16-byte salt.
UnlockCleared ==
    /\ ret.op = "unlock" /\ ret.res = "ok" /\ Len(ret.val) = 48
    /\ session # <<>> /\ session[1].salt = <<>>
\* An Unlock found no session.
UnlockFoundNone ==
    ret.op = "unlock" /\ ret.res = "not_locked" /\ session = <<>>

\* ==================================================================== C17
\* C17: on a locked session VerifyKeyHash answers ok exactly for the bytes
\* the last successful Lock was given, and "invalid password" for any other
\* candidate; with no session or an unlocked one it answers "not locked"; it
\* never changes locked, keyHash, salt or token.
SessionState(sess) ==
    IF sess = <<>> THEN <<>>
    ELSE <<sess[1].locked, sess[1].keyHash, sess[1].salt, sess[1].token>>
VerifyContract ==
    [][/\ (ret'.op = "lock" /\ ret'.res = "ok") => session'[1].keyHash = <<ret'.val>>
       /\ (IsLocked(session) /\ IsLocked(session')) =>
            session'[1].keyHash = session[1].keyHash
       /\ ret'.op = "verify_key_hash" =>
            /\ SessionState(session') = SessionState(session)
            /\ IF ~IsLocked(session) THEN ret'.res = "not_locked"
               ELSE IF <<ret'.val>> = session[1].keyHash THEN ret'.res = "ok"
               ELSE ret'.res = "invalid_password"]_vars
\* A candidate one byte short of the stored key hash has been refused.
ShortCandidateRefused ==
    /\ ret.op = "verify_key_hash" /\ ret.res = "invalid_password"
    /\ Len(ret.val) = 31 /\ IsLocked(session)
    /\ \A i \in 1 .. 31 : ret.val[i] = session[1].keyHash[1][i]

\* ==================================================================== C18
\* C18: an entry that holds only ciphertext never yields bytes through Get,
\* GetText or GetImage: they answer "not found" / "empty", or "expired" once
\* the entry is past its expiry; GetEncryptedFiles, GetEncryptedText and
\* GetEncryptedImage return exactly the ciphertext that was supplied.
CiphertextOnly(e) == e.data = 0 /\ e.encrypted # <<>>
CiphertextFile(id) ==
    HasFile(files, NormalFileID(id)) /\ CiphertextOnly(FileAt(files, NormalFileID(id)))
CiphertextSlot(k) == SlotOf(k) # <<>> /\ CiphertextOnly(SlotOf(k)[1])
SuppliedCiphertextReturned ==
    /\ (ret'.op = "get_encrypted_files" /\ CiphertextFile(ReadFileInfo.id)) =>
          \E i \in 1 .. Len(ret'.val) :
              /\ ret'.val[i].id = ReadFileInfo.id
              /\ ret'.val[i].b64 = ReadFileInfo.b64
              /\ B64DecodeString(ret'.val[i].b64) = CipherB
    /\ (ret'.op = "get_encrypted_text" /\ CiphertextSlot("text")) =>
          ret'.res = "ok" /\ ret'.val = Cipher
    /\ (ret'.op = "get_encrypted_image" /\ CiphertextSlot("image")) =>
          ret'.res = "ok" /\ ret'.val = CipherB
PlaintextPathsRefuse ==
    [][/\ (ret'.op = "get" /\ CiphertextFile(ret'.id)) =>
            /\ ret'.val = <<>>
            /\ ret'.res = IF Expired(FileAt(files, NormalFileID(ret'.id)))
                          THEN "expired" ELSE "not_found"
       /\ \A k \in Slots : (ret'.op = "get_" \o k /\ CiphertextSlot(k)) =>
            /\ ret'.val = <<>>
            /\ ret'.res = IF Expired(SlotOf(k)[1]) THEN "expired" ELSE "empty"
       /\ SuppliedCiphertextReturned]_vars
\* C18 as written: the answer is always "not found" / "empty".
PlaintextPathsNotFound ==
    [][/\ (ret'.op = "get" /\ CiphertextFile(ret'.id)) =>
            ret'.val = <<>> /\ ret'.res = "not_found"
       /\ \A k \in Slots : (ret'.op = "get_" \o k /\ CiphertextSlot(k)) =>
            ret'.val = <<>> /\ ret'.res = "empty"
       /\ SuppliedCiphertextReturned]_vars
\* GetText has answered "empty" on a text slot that holds ciphertext and has
\* not expired.
CiphertextTextRefused ==
    /\ ret.op = "get_text" /\ ret.res = "empty"
    /\ CiphertextSlot("text") /\ ~Expired(text[1])

\* ==================================================================== C19
\* C19: once the clock is past an entry's expiresAt no read of either store
\* returns its content or metadata, swept or not, and only an operation that
\* replaces the entry gives the same id or slot a later expiresAt.
Replacing ==
    {"store", "set_text", "set_image", "set_encrypted_files", "add_encrypted_file",
     "set_encrypted_text", "set_encrypted_image"}
ExpiredUnreadable ==
    [][/\ (ret'.op \in {"get", "get_metadata"} /\ ret'.res = "ok") =>
            ~(now > FileAt(files, NormalFileID(ret'.id)).expiresAt)
       /\ ret'.op \in {"list", "get_encrypted_files"} =>
            \A i \in 1 .. Len(ret'.val) :
                ~(now > FileAt(files, ret'.val[i].id).expiresAt)
       /\ \A k \in Slots :
            (ret'.op \in {"get_" \o k, "info_" \o k, "get_encrypted_" \o k}
                /\ ret'.res = "ok") => ~(now > SlotOf(k)[1].expiresAt)
       /\ ret'.op \notin Replacing =>
            /\ \A f \in files, g \in files' : f.id = g.id => g.expiresAt <= f.expiresAt
            /\ \A k \in Slots :
                 LET old == SlotOf(k)
                     new == IF k = "text" THEN text' ELSE image'
                 IN (old # <<>> /\ new # <<>>) => new[1].expiresAt <= old[1].expiresAt]_vars

\* ==================================================================== C20
\* C20: a sweep at time t removes exactly the entries with expiresAt before
\* t: each is shredded and its size given back to the tracker, and every
\* other entry, with its buffer, is left as it was.
RECURSIVE SumSize(_)
SumSize(S) ==
    IF S = {} THEN 0
    ELSE LET e == CHOOSE x \in S : TRUE IN e.size + SumSize(S \ {e})
Swept(old) ==
    /\ allocated' = IF allocated - SumSize(old) < 0 THEN 0 ELSE allocated - SumSize(old)
    /\ \A e \in old :
          /\ \E rec \in ret'.log : rec.data = e.data /\ rec.size = e.size
          /\ e.data # 0 => bufs'[e.data].destroyed /\ bufs'[e.data].content = <<>>
    /\ Cardinality(ret'.log) = Cardinality(old)
Kept(e) == e.data # 0 => bufs'[e.data] = bufs[e.data]
SweepPostcondition ==
    [][/\ ret'.op = "files_cleanup" =>
            /\ files' = {f \in files : ~(f.expiresAt < now)}
            /\ \A f \in files' : Kept(f)
            /\ Swept(files \ files')
            /\ text' = text /\ image' = image
       /\ ret'.op = "clipboard_cleanup" =>
            /\ \A k \in Slots :
                 LET old == SlotOf(k)
                     new == IF k = "text" THEN text' ELSE image'
                 IN IF old # <<>> /\ old[1].expiresAt < now
                    THEN new = <<>> ELSE new = old /\ (old # <<>> => Kept(old[1]))
            /\ Swept({SlotOf(k)[1] : k \in {x \in Slots : SlotOf(x) # <<>>
                                                      /\ SlotOf(x)[1].expiresAt < now}})
            /\ files' = files]_vars
\* A sweep of the file store has removed one expired file and left the other,
\* which expires at this very instant, in place.
SweptOneKeptOne ==
    /\ ret.op = "files_cleanup" /\ ret.n = 1
    /\ \E f \in files : f.expiresAt = now

\* ==================================================================== C21
\* C21: List returns the metadata of exactly the entries that have not
\* expired, each before every entry created earlier, and no two of them with
\* the same createdAt out of strict order.
ListStrictlyDescending ==
    [][ret'.op = "list" =>
          /\ {ret'.val[i] : i \in 1 .. Len(ret'.val)}
                = {FileInfo(f) : f \in {x \in files : ~(now > x.expiresAt)}}
          /\ Len(ret'.val) = Cardinality({x \in files : ~(now > x.expiresAt)})
          /\ \A i, j \in 1 .. Len(ret'.val) :
                i < j => ret'.val[i].createdAt > ret'.val[j].createdAt]_vars

\* ==================================================================== C22
\* C22: when the process exits through the intrusion callback, the callback
\* has shredded the files, then the clipboard, then destroyed the session,
\* then exited, and at that moment the file map is empty, both clipboard
\* slots are empty and no key hash or salt is held.
IsCallbackStep(x) ==
    x \in {"cb_shred_files", "cb_shred_clipboard", "cb_destroy_session", "cb_exit"}
ExitLeavesNothing ==
    [][(proc'.exited /\ ~proc.exited /\ ret'.res = "intrusion") =>
          /\ SelectSeq(proc'.did, IsCallbackStep)
                = <<"cb_shred_files", "cb_shred_clipboard", "cb_destroy_session", "cb_exit">>
          /\ files' = {} /\ text' = <<>> /\ image' = <<>>
          /\ session' = <<>> \/ (session'[1].keyHash = <<>> /\ session'[1].salt = <<>>)]_vars

\* ==================================================================== C23
\* C23, as written: the shutdown steps happen in the order stop accepting,
\* shred files, shred clipboard, destroy session, destroy decoy pool, stop
\* tripwire.
IsShutdownStep(x) ==
    x \in {"stop_accepting", "shred_files", "shred_clipboard", "destroy_session",
           "destroy_decoys", "stop_tripwire"}
IsPrefix(p, q) == Len(p) <= Len(q) /\ \A i \in 1 .. Len(p) : p[i] = q[i]
ShutdownOrderDecoysFirst ==
    IsPrefix(SelectSeq(proc.did, IsShutdownStep),
             <<"stop_accepting", "shred_files", "shred_clipboard", "destroy_session",
               "destroy_decoys", "stop_tripwire">>)
\* C23, amended: the tripwire is stopped before the decoy pool is destroyed,
\* both by deferred calls that run as main returns.
ShutdownOrder ==
    IsPrefix(SelectSeq(proc.did, IsShutdownStep),
             <<"stop_accepting", "shred_files", "shred_clipboard", "destroy_session",
               "stop_tripwire", "destroy_decoys">>)
\* main has returned after a shutdown that ran all six steps.
ShutdownCompleted ==
    /\ proc.exited /\ ret.op = "exit" /\ ret.res = "shutdown"
    /\ Len(SelectSeq(proc.did, IsShutdownStep)) = 6

\* ==================================================================== C24
\* C24: ShredAll shreds an entry only after the map has been drained and
\* with fs.mu released, so that readers are not kept waiting by a shred.
ShredOutsideMapLock ==
    [][ret'.op = "shred_file" => (files = {} /\ FsFree)]_vars

ForceUnlockContract ==
    [][/\ ret'.op = "shred_cb" =>
             /\ IsLocked(session) /\ session' = session
             /\ session[1].keyHash # <<>> /\ session[1].salt # <<>>
       /\ (ret'.op = "force_unlock" /\ ret'.res = "ok") =>
             /\ IsLocked(session) /\ ret'.n = 1
             /\ session' # <<>> /\ ~session'[1].locked
             /\ session'[1].keyHash = <<>> /\ session'[1].salt = <<>>
             /\ ret'.val = Zeros(Len(session[1].keyHash[1]) + Len(session[1].salt[1]))
             /\ UNCHANGED <<allocated, files, text, image, bufs>>
       /\ (ret'.op = "force_unlock" /\ ret'.res = "not_locked") =>
             /\ ~IsLocked(session)
             /\ UNCHANGED <<allocated, storeVars, sessionVars, tripVars>>]_vars
\* A force unlock has completed whose callback shredded a stored file.
ForceUnlockShredded ==
    /\ ret.op = "force_unlock" /\ ret.res = "ok" /\ ret.n = 1
    /\ session # <<>> /\ ~session[1].locked
    /\ \E h \in 1 .. Len(bufs) : bufs[h].shreds = 1

\* C27: Lock on a session that is already locked answers SessionLocked and
\* leaves keyHash, salt, token, locked and lockedAt as they were: the first
\* lock's key hash still verifies, the second caller's does not.
RelockRefused ==
    [][(ret'.op = "lock" /\ IsLocked(session)) =>
          /\ ret'.res = "locked"
          /\ session' = session
          /\ SmVerifyKeyHash(session', session[1].keyHash[1]) = "ok"
          /\ ret'.val # session[1].keyHash[1] =>
                SmVerifyKeyHash(session', ret'.val) # "ok"]_vars
\* A second Lock, later and with another key hash and salt, was refused.
RelockedLater ==
    /\ ret.op = "lock" /\ ret.res = "locked"
    /\ IsLocked(session)
    /\ ret.val # session[1].keyHash[1] /\ ret.slice # session[1].salt[1]
    /\ session[1].lockedAt[1] < now

\* C28: a lock request moves the session to Locked only with a key hash of
\* 32 bytes and a salt of at least 16; a request with a key hash of another
\* length or a shorter salt fails and leaves the session and the stores as
\* they were.
LockNeedsLengths ==
    [][/\ ret'.op = "handle_lock" =>
             IF Len(ret'.val) = 32 /\ Len(ret'.slice) >= 16
             THEN ret'.res \in {"ok", "locked"}
             ELSE /\ ret'.res \in {"missing", "invalid_key_hash", "invalid_salt"}
                  /\ UNCHANGED <<allocated, storeVars, sessionVars>>
       /\ IsLocked(session') =>
             /\ Len(session'[1].keyHash[1]) = 32
             /\ Len(session'[1].salt[1]) >= 16]_vars
\* A request with a 33-byte key hash was refused while data was stored.
LongKeyHashRefused ==
    /\ ret.op = "handle_lock" /\ ret.res = "invalid_key_hash"
    /\ Len(ret.val) = 33 /\ Len(ret.slice) = 16
    /\ text # <<>> /\ ~IsLocked(session)

\* C29: once Destroy has run, no later Lock, CreateSession, Unlock or
\* ForceUnlock brings a session back: the manager holds no session from
\* then on.
DestroyHasRun ==
    \E i \in 1 .. Len(proc.did) : proc.did[i] \in {"cb_destroy_session", "destroy_session"}
DestroyedIsTerminal == DestroyHasRun => session = <<>>

\* C30: a callback that fails is swallowed: the task that triggered gets to
\* the end of its loop, and every callback in its copy has been invoked.
CallbackFailuresSwallowed ==
    \A task \in TrigTasks :
        (Triggerer(task) /\ trigTask[task].pc # "running") =>
            /\ trigTask[task].pc = "done"
            /\ \A i \in 1 .. Len(trigTask[task].snap) :
                  invoked[trigTask[task].snap[i]] # <<>>

\* C31: a SetText or SetImage that fails, on the buffer or on the tracker,
\* leaves both slots and the buffers of their entries as they were, leaves
\* allocated unchanged, has destroyed the buffer it had built and has
\* zeroized the caller's slice.
SetFailed(r) == r.op \in {"set_text", "set_image"} /\ r.res \in {"buffer", "limit"}
SetFailureClean ==
    [][SetFailed(ret') =>
          /\ text' = text /\ image' = image /\ allocated' = allocated
          /\ shredQueue' = shredQueue
          /\ \A k \in Slots :
                (SlotOf(k) # <<>> /\ SlotOf(k)[1].data # 0) =>
                    bufs'[SlotOf(k)[1].data] = bufs[SlotOf(k)[1].data]
          /\ ret'.slice = Zeros(ret'.n)
          /\ ret'.res = "buffer" => bufs' = bufs
          /\ ret'.res = "limit" =>
                \E t \in Threads :
                    /\ thr[t].pc = "set" /\ thr'[t].pc = "idle"
                    /\ ~bufs[thr[t].buf].destroyed
                    /\ bufs'[thr[t].buf].destroyed
                    /\ bufs'[thr[t].buf].content = <<>>]_vars
\* The tracker refused a SetText while the text slot held an entry, which
\* is still there with its bytes.
SetRefusedKeepsOld ==
    /\ ret.op = "set_text" /\ ret.res = "limit"
    /\ text # <<>> /\ text[1].data # 0
    /\ ~bufs[text[1].data].destroyed
    /\ bufs[text[1].data].content = <<6, 6>>

\* C32: a construction of a FortifiedBuffer that fails returns an error,
\* leaves no buffer behind and has zeroized the caller's slice, in every
\* mode.
ConstructionFailureClean ==
    (ret.op = "new_fortified" /\ ret.res = "random") =>
        /\ fb = <<>>
        /\ ret.slice = Zeros(Len(ret.slice))

\* C33: for SecureBuffer, SecureKey, ObfuscatedBuffer, ScatteredBuffer and
\* FortifiedBuffer, a Destroy leaves the object destroyed and holding no
\* bytes, a destroyed object is never changed again (a second Destroy is a
\* no-op), and every entry point called on a destroyed object fails with the
\* Destroyed error and returns no bytes (Size answers 0).
DestroyedObjectsRefuse ==
    [][/\ \A h \in SecureBuffers :
             sec.buffers[h].destroyed => sec'.buffers[h] = sec.buffers[h]
       /\ \A k \in SecureKeys : sec.keys[k].destroyed => sec'.keys[k] = sec.keys[k]
       /\ \A i \in ObfuscatedChunks :
             sec.chunks[i].destroyed =>
                 /\ sec'.chunks[i].destroyed
                 /\ sec'.chunks[i].data = <<>>
                 /\ sec'.chunks[i].pad = <<>>
       /\ (fb # <<>> /\ fb[1].destroyed) => fb' = fb
       /\ ret'.op = "destroy_buffer" =>
             sec'.buffers[ret'.id[1]].destroyed /\ sec'.buffers[ret'.id[1]].buf = <<>>
       /\ ret'.op = "destroy_key" =>
             sec'.keys[ret'.id[1]].destroyed /\ sec'.keys[ret'.id[1]].enclave = <<>>
       /\ ret'.op = "destroy_obfuscated" =>
             sec'.chunks[ret'.id[1]].destroyed /\ sec'.chunks[ret'.id[1]].data = <<>>
       /\ ret'.op = "destroy_fortified" => fb'[1].destroyed /\ FortifiedRead(fb'[1]) = <<"destroyed">>
       /\ (ret'.op \in {"bytes", "copy", "wipe", "use", "mutable_use", "seal"}
             /\ sec.buffers[ret'.id[1]].destroyed) =>
                 ret'.res = "destroyed" /\ ret'.val = <<>>
       /\ (ret'.op \in {"key_use", "clone"} /\ sec.keys[ret'.id[1]].destroyed) =>
             ret'.res = "destroyed" /\ ret'.val = <<>>
       /\ (ret'.op = "equal"
             /\ (sec.keys[ret'.id[1]].destroyed \/ sec.keys[ret'.id[2]].destroyed)) =>
                 ret'.res = "destroyed"
       /\ (ret'.op = "read_obfuscated" /\ sec.chunks[ret'.id[1]].destroyed) =>
             ret'.res = "destroyed" /\ ret'.val = <<>>
       /\ (ret'.op = "read" /\ fb[1].destroyed) => ret'.res = "destroyed" /\ ret'.val = <<>>
       /\ (ret'.op = "buffer_size" /\ sec.buffers[ret'.id[1]].destroyed) => ret'.n = 0
       /\ (ret'.op = "key_size" /\ sec.keys[ret'.id[1]].destroyed) => ret'.n = 0
       /\ (ret'.op = "size_obfuscated" /\ sec.chunks[ret'.id[1]].destroyed) => ret'.n = 0
       /\ (ret'.op = "size" /\ fb[1].destroyed) => ret'.n = 0]_vars

\* C34: once an ObfuscatedBuffer is destroyed, alone or as a chunk of a
\* FortifiedBuffer that is destroyed, no rotation writes its data or pad again
\* (a tick that raced with the Destroy changes nothing), the Destroy has
\* zeroized data and pad, and the rotation goroutine ends.
RotationStopsAtDestroy ==
    /\ [][/\ \A i \in ObfuscatedChunks :
               sec.chunks[i].destroyed =>
                   /\ sec'.chunks[i].destroyed
                   /\ sec'.chunks[i].data = sec.chunks[i].data
                   /\ sec'.chunks[i].pad = sec.chunks[i].pad
          /\ \A i \in ObfuscatedChunks :
               (~sec.chunks[i].destroyed /\ sec'.chunks[i].destroyed) =>
                   /\ ret'.op \in {"destroy_obfuscated", "destroy_chunks"}
                   /\ [what |-> "data", bytes |-> Zeros(Len(sec.chunks[i].data))] \in ret'.log
                   /\ [what |-> "pad", bytes |-> Zeros(Len(sec.chunks[i].pad))] \in ret'.log
                   /\ sec'.chunks[i].data = <<>>
                   /\ sec'.chunks[i].pad = <<>>
          /\ ret'.op = "destroy_chunks" => \A i \in ObfuscatedChunks : sec'.chunks[i].destroyed
          /\ ret'.op = "destroy_obfuscated" => sec'.chunks[ret'.id[1]].destroyed]_vars
    /\ \A i \in 1 .. MaxChunks :
          (i \in ObfuscatedChunks /\ sec.chunks[i].destroyed) ~>
              (i \in ObfuscatedChunks /\ sec.chunks[i].loop = "ended")
\* A rotation that had taken its tick before the FortifiedBuffer was destroyed
\* ran afterwards and found the chunk destroyed.
TickRacedDestroy ==
    /\ ret.op = "rotate_chunk"
    /\ ret.res = "destroyed"
    /\ sec.fortified = "destroyed"
    /\ sec.chunks[ret.id[1]].data = <<>>

\* C35: SecureBuffer.Copy returns a new buffer holding the source's bytes and
\* leaves the source as it was: still holding its contents, not destroyed.
CopyLeavesSource ==
    [][(ret'.op = "copy" /\ ret'.res = "ok") =>
          /\ sec'.buffers[ret'.n].buf = sec.buffers[ret'.id[1]].buf
          /\ ~sec'.buffers[ret'.id[1]].destroyed
          /\ sec'.buffers[ret'.id[1]].buf = sec.buffers[ret'.id[1]].buf]_vars

\* C40: concurrent a.Equal(b) and b.Equal(a) on two live keys both return:
\* no interleaving leaves two threads inside Equal, each holding the mutex
\* of its own key and waiting for the mutex the other holds.
EqualNeverBlocked ==
    \A t \in Threads, u \in Threads :
        ~(/\ t # u
          /\ sec.eq[t].pc = "other_use"
          /\ sec.eq[u].pc = "other_use"
          /\ sec.keys[sec.eq[t].other].mu = u
          /\ sec.keys[sec.eq[u].other].mu = t)

\* C36: once ForceUnlock has returned and until the session is locked again,
\* neither store holds a ciphertext-only entry, whatever requests were in
\* flight when it ran.
NoCiphertextAfterForceUnlock ==
    (session # <<>> /\ ~session[1].locked /\ SmFree) =>
        /\ \A f \in files : ~CiphertextOnly(f)
        /\ ~CiphertextSlot("text")
        /\ ~CiphertextSlot("image")

\* C37: a lock request that fails because the session is already Locked, or
\* because no token could be generated, leaves both stores as they were:
\* nothing is shredded and nothing is replaced.
FailedLockKeepsStores ==
    [][(ret'.op = "handle_lock" /\ ret'.res \in {"locked", "random"}) =>
          /\ UNCHANGED <<files, text, image, allocated, bufs>>
          /\ ret'.log = {}]_vars

\* C38: every entry that leaves the file map is destroyed in the step that
\* removes or replaces it: its plaintext buffer is destroyed and shredFile
\* ran on it, handing the bytes it had reserved to the tracker's Free.
StillStored(f, fls) ==
    \E g \in fls : /\ g.id = f.id /\ g.data = f.data
                   /\ g.origin = f.origin /\ g.createdAt = f.createdAt
DisplacedEntriesDestroyed ==
    [][ret'.op \in {"delete", "files_cleanup", "files_shred_all", "set_encrypted_files",
                    "add_encrypted_file", "files_clear_encrypted"} =>
          \A f \in files :
              ~StillStored(f, files') =>
                  /\ f.data # 0 => bufs'[f.data].destroyed
                  /\ (f.data # 0 \/ f.reserved > 0) =>
                        \E rec \in ret'.log :
                            /\ rec.data = f.data /\ rec.origin = f.origin
                            /\ rec.size = f.reserved]_vars

\* C39 -- No deadlock.  Whatever the interleaving of session operations
\* (force_unlock running its shred callback under the manager and session
\* locks), store and clipboard operations, sweeps, asynchronous shreds, pad
\* rotations, buffer construction and a tripwire trigger running its
\* callbacks: no mutex is ever acquired under a mutex of a kind that is itself
\* acquired under it (the acquisition order has no cycle), no set of
\* goroutines ever waits on one another, and every operation that has started
\* returns.
Kind(m) ==
    CASE m = "sm.mu" -> "manager"
      [] m = "session.mu" -> "session"
      [] m \in {"fs.mu", "cs.mu"} -> "store"
      [] m \in {"file.mu", "text.mu"} -> "entry"
      [] m = "memory.mu" -> "tracker"
      [] m = "fb.mu" -> "buffer"
      [] m = "ob.mu" -> "chunk"
      [] m = "t.mu" -> "tripwire"

Acquires(s) == s.do \in {"Lock", "RLock"}

HeldBefore(prog, i) ==
    {m \in Mutexes :
        \E j \in 1..(i - 1) :
            /\ prog[j].mu = m /\ Acquires(prog[j])
            /\ ~\E k \in (j + 1)..(i - 1) : prog[k].mu = m /\ ~Acquires(prog[k])}

AcquiredUnder ==
    UNION {UNION {{<<Kind(h), Kind(Program(op)[i].mu)>> : h \in HeldBefore(Program(op), i)} :
                      i \in {j \in 1..Len(Program(op)) : Acquires(Program(op)[j])}} :
              op \in LockOps}

RECURSIVE Closure(_)
Closure(E) ==
    LET step == E \cup {<<p[1][1], p[2][2]>> : p \in {q \in E \X E : q[1][2] = q[2][1]}}
    IN IF step = E THEN E ELSE Closure(step)

BlockedBy(t) ==
    LET s == StepOf(t) IN
    CASE s.do = "Lock" -> ({lk.w[s.mu]} \ {0}) \cup lk.r[s.mu]
      [] s.do = "RLock" -> ({lk.w[s.mu]} \ {0}) \cup (lk.pend[s.mu] \ {t})
      [] OTHER -> {}

WaitOnOneAnother(S) ==
    /\ S # {}
    /\ \A t \in S : lk.at[t] # IdleAt /\ BlockedBy(t) \cap S # {}

LocksNeverCycle ==
    /\ [](/\ \A e \in Closure(AcquiredUnder) : e[1] # e[2]
          /\ \A S \in SUBSET Threads : ~WaitOnOneAnother(S))
    /\ \A t \in Threads : (lk.at[t] # IdleAt) ~> (lk.at[t] = IdleAt)

\* force_unlock is inside its shred callback, holding the manager, session,
\* store and file locks, while the tripwire's trigger, running its callbacks,
\* waits for the store.
ForceUnlockShredsWhileTriggerWaits ==
    \E t, u \in Threads :
        /\ lk.at[t].op = "force_unlock"
        /\ \A m \in {"sm.mu", "session.mu", "fs.mu", "file.mu"} : lk.w[m] = t
        /\ lk.at[u].op = "trigger"
        /\ StepOf(u) = [do |-> "Lock", mu |-> "fs.mu"]
        /\ u \in lk.pend["fs.mu"]

====
